---- MODULE Spec2Model ----
(***************************************************************************)
(* The node-side bridge session of the Android app (BridgeSession.kt):     *)
(* the supervisor loop (runLoop), one connection attempt (connectOnce),    *)
(* the correlation table (pending), the public calls connect, disconnect   *)
(* and request, and the canvas host URL captured at the handshake.         *)
(*                                                                         *)
(* Threads.  connect() and disconnect() are plain calls; disconnect()      *)
(* launches a coroutine on Dispatchers.IO.  runLoop is a coroutine on      *)
(* Dispatchers.IO; request() is a suspend function run by its caller.      *)
(* Blocking socket calls (Socket.connect, BufferedReader.readLine) are     *)
(* not interrupted by coroutine cancellation; delay() and the entry and    *)
(* exit of withContext are.  `scope.isActive` reads the session's scope,   *)
(* which the session never cancels, so it is TRUE throughout.              *)
(***************************************************************************)
EXTENDS Integers, Sequences, FiniteSets, TLC

\* ---------------------------------------------------------------- bounds
\* runLoop coroutines and connections that exist over a behaviour, consecutive
\* dial failures of the network, and request() calls.
MaxLoops == 2
MaxConn == 2
MaxAttempt == 1
MaxReq == 2
\* iOS: tasks that exist at a time, and the value `attempt` may reach.
MaxEvents == 1
MaxFrames == 2
MaxIpcEvents == 4
MaxPings == 2
MaxSyncs == 2
MaxIpcCalls == 3
MaxTasks == 2
MaxTaskAttempt == 7
\* connect() and disconnect() calls in a behaviour of Spec (no request() calls)
\* and of RequestSpec (with them).
MaxConnectCalls == 3
MaxDisconnectCalls == 2
ReqConnectCalls == 2
ReqDisconnectCalls == 1
\* and of WireSpec (no request() calls, the read loop's turns recorded).
WireConnectCalls == 1
WireDisconnectCalls == 1
\* connectToBridge and disconnectBridge calls in a behaviour of SupervisorSpec.
AppConnectCalls == 2
AppDisconnectCalls == 1

Loops == 1..MaxLoops
Conns == 1..MaxConn
ReqIds == 1..MaxReq
Tasks == 1..MaxTasks

\* ------------------------------------------------------------- constants
DefaultCanvasPort == 18793

None == "none"

\* ----------------------------------------------------------------- texts
\* A text (String) is the sequence of its characters.
UpperCase ==
  {"A", "B", "C", "D", "E", "F", "G", "H", "I", "J", "K", "L", "M",
   "N", "O", "P", "Q", "R", "S", "T", "U", "V", "W", "X", "Y", "Z"}
Letters ==
  [upper |-> <<"A", "B", "C", "D", "E", "F", "G", "H", "I", "J", "K", "L", "M",
               "N", "O", "P", "Q", "R", "S", "T", "U", "V", "W", "X", "Y", "Z">>,
   lower |-> <<"a", "b", "c", "d", "e", "f", "g", "h", "i", "j", "k", "l", "m",
               "n", "o", "p", "q", "r", "s", "t", "u", "v", "w", "x", "y", "z">>]
Digits == <<"0", "1", "2", "3", "4", "5", "6", "7", "8", "9">>

\* String.trim() on a text given as its characters.
Trim(text) ==
  LET solid == {i \in 1..Len(text) : text[i] # " "}
  IN  IF solid = {} THEN <<>>
      ELSE SubSeq(text, CHOOSE i \in solid : \A k \in solid : i <= k,
                        CHOOSE i \in solid : \A k \in solid : i >= k)

\* String.lowercase().
lowercase(text) ==
  [i \in 1..Len(text) |->
     IF text[i] \in UpperCase
       THEN Letters.lower[CHOOSE k \in 1..26 : Letters.upper[k] = text[i]]
       ELSE text[i]]

\* String.startsWith(prefix).
startsWith(text, prefix) ==
  Len(text) >= Len(prefix) /\ SubSeq(text, 1, Len(prefix)) = prefix

\* The number written by a text of digits, and the decimal text of a number.
RECURSIVE ToInt(_)
ToInt(text) ==
  IF text = <<>> THEN 0
  ELSE 10 * ToInt(SubSeq(text, 1, Len(text) - 1))
         + (CHOOSE d \in 0..9 : Digits[d + 1] = text[Len(text)])

RECURSIVE ToText(_)
ToText(n) ==
  IF n < 10 THEN <<Digits[n + 1]>>
  ELSE ToText(n \div 10) \o <<Digits[(n % 10) + 1]>>

\* A String? holding a URL: the empty text stands for null.
NullUrl == <<>>
\* "$scheme://$host:$port"
Url(scheme, host, port) == scheme \o <<":", "/", "/">> \o host \o <<":">> \o ToText(port)

\* BridgeEndpoint values the caller dials, by name; canvasPort 0 is null.
EndpointNames == {"E1", "E2"}
Endpoint(name) ==
  IF name = "E1"
    THEN [host |-> <<"2", "0", "3", ".", "0", ".", "1", "1", "3", ".", "9">>, lanHost |-> <<>>, tailnetDns |-> <<"n", "o", "d", "e", "1", ".", "t", "s", ".", "n", "e", "t">>,
          canvasPort |-> 0]
    ELSE [host |-> <<"1", "0", ".", "0", ".", "0", ".", "7">>, lanHost |-> <<>>, tailnetDns |-> <<>>,
          canvasPort |-> 0]

\* ------------------------------------------------- normalizeCanvasHostUrl
\* runCatching { URI(text) }.getOrNull() with its scheme, host and port, for
\* texts of the form scheme://host[:port][/path]: a text with a space in it is
\* no URI, a text without "//" after the scheme has no host, and getHost()
\* gives an IPv6 literal with its brackets.  No URI, no scheme and no host are
\* all the empty text, and no port is -1 (the caller uses .orEmpty() and ?: -1).
NoUri == [scheme |-> <<>>, host |-> <<>>, port |-> -1]
URI(text) ==
  LET First(set) == CHOOSE i \in set : \A k \in set : i <= k
      colons == {i \in 1..Len(text) : text[i] = ":"}
      scheme == SubSeq(text, 1, First(colons) - 1)
      hier == SubSeq(text, First(colons) + 1, Len(text))
      rest == SubSeq(hier, 3, Len(hier))
      slashes == {i \in 1..Len(rest) : rest[i] = "/"}
      authority == IF slashes = {} THEN rest ELSE SubSeq(rest, 1, First(slashes) - 1)
      closing == {i \in 1..Len(authority) : authority[i] = "]"}
      marks == {i \in 1..Len(authority) : authority[i] = ":"}
      hostEnd ==
        IF authority # <<>> /\ authority[1] = "[" /\ closing # {} THEN First(closing)
        ELSE IF marks # {} THEN First(marks) - 1
        ELSE Len(authority)
      host == SubSeq(authority, 1, hostEnd)
      tail == SubSeq(authority, hostEnd + 1, Len(authority))
      digits == SubSeq(tail, 2, Len(tail))
      server ==
        /\ host # <<>>
        /\ tail # <<>> => \A i \in 1..Len(digits) : \E d \in 1..10 : Digits[d] = digits[i]
  IN  IF \E i \in 1..Len(text) : text[i] = " " THEN NoUri
      ELSE IF colons = {} THEN NoUri
      ELSE IF scheme = <<>> \/ ~(\E k \in 1..26 : scheme[1] \in {Letters.upper[k], Letters.lower[k]})
        THEN NoUri
      ELSE IF ~startsWith(hier, <<"/", "/">>) \/ ~server
        THEN [scheme |-> scheme, host |-> <<>>, port |-> -1]
      ELSE [scheme |-> scheme, host |-> host,
            port |-> IF digits = <<>> THEN -1 ELSE ToInt(digits)]

isLoopbackHost(raw) ==
  LET host == lowercase(Trim(raw))
  IN  IF host = <<>> THEN FALSE
      ELSE IF host = <<"l", "o", "c", "a", "l", "h", "o", "s", "t">> THEN TRUE
      ELSE IF host = <<":", ":", "1">> THEN TRUE
      ELSE IF host = <<"0", ".", "0", ".", "0", ".", "0">> \/ host = <<":", ":">> THEN TRUE
      ELSE startsWith(host, <<"1", "2", "7", ".">>)

\* A normalisation that prefers the LAN host to the tailnet name and always
\* answers with http.
normalizeLanFirst(raw, endpoint) ==
  LET trimmed == Trim(raw)
      parsed == IF trimmed # <<>> THEN URI(trimmed) ELSE NoUri
      fallbackHost ==
        IF Trim(endpoint.lanHost) # <<>> THEN Trim(endpoint.lanHost)
        ELSE IF Trim(endpoint.tailnetDns) # <<>> THEN Trim(endpoint.tailnetDns)
        ELSE Trim(endpoint.host)
      fallbackPort ==
        IF endpoint.canvasPort # 0 THEN endpoint.canvasPort
        ELSE IF parsed.port > 0 THEN parsed.port ELSE DefaultCanvasPort
  IN  IF trimmed # <<>> /\ ~isLoopbackHost(Trim(parsed.host)) THEN trimmed
      ELSE IF fallbackHost = <<>> THEN trimmed
      ELSE Url(<<"h", "t", "t", "p">>, fallbackHost, fallbackPort)

normalizeCanvasHostUrl(raw, endpoint) ==
  LET trimmed == Trim(raw)
      parsed == IF trimmed # <<>> THEN URI(trimmed) ELSE NoUri
      host == Trim(parsed.host)
      port == parsed.port
      scheme == IF Trim(parsed.scheme) = <<>> THEN <<"h", "t", "t", "p">> ELSE Trim(parsed.scheme)
      fallbackHost ==
        IF Trim(endpoint.tailnetDns) # <<>> THEN Trim(endpoint.tailnetDns)
        ELSE IF Trim(endpoint.lanHost) # <<>> THEN Trim(endpoint.lanHost)
        ELSE Trim(endpoint.host)
      fallbackPort ==
        IF endpoint.canvasPort # 0 THEN endpoint.canvasPort
        ELSE IF port > 0 THEN port ELSE DefaultCanvasPort
      formattedHost ==
        IF \E i \in 1..Len(fallbackHost) : fallbackHost[i] = ":"
          THEN <<"[">> \o fallbackHost \o <<"]">>
          ELSE fallbackHost
  IN  IF trimmed # <<>> /\ ~isLoopbackHost(host) THEN trimmed
      ELSE IF fallbackHost = <<>> THEN trimmed
      ELSE Url(scheme, formattedHost, fallbackPort)

\* The canvasHostUrl values a gateway advertises in hello-ok: none, and
\* "http://10.0.0.5:18793".
RawCanvasUrls == {NullUrl, Url(<<"h", "t", "t", "p">>, <<"1", "0", ".", "0", ".", "0", ".", "5">>, 18793)}

\* The advertised texts and the endpoints normalizeCanvasHostUrl is applied to.
AdvertisedUrls ==
  {\* ""
   <<>>,
   \* " "
   <<" ">>,
   \* "http://10.0.0.5:18793"
   <<"h", "t", "t", "p", ":", "/", "/", "1", "0", ".", "0", ".", "0", ".", "5", ":",
   "1", "8", "7", "9", "3">>,
   \* " http://10.0.0.5:18793 "
   <<" ", "h", "t", "t", "p", ":", "/", "/", "1", "0", ".", "0", ".", "0", ".", "5",
   ":", "1", "8", "7", "9", "3", " ">>,
   \* "https://node1.ts.net/canvas"
   <<"h", "t", "t", "p", "s", ":", "/", "/", "n", "o", "d", "e", "1", ".", "t", "s",
   ".", "n", "e", "t", "/", "c", "a", "n", "v", "a", "s">>,
   \* "http://1270.0.0.1:80"
   <<"h", "t", "t", "p", ":", "/", "/", "1", "2", "7", "0", ".", "0", ".", "0", ".",
   "1", ":", "8", "0">>,
   \* "no url"
   <<"n", "o", " ", "u", "r", "l">>,
   \* "http://127.0.0.1:9000"
   <<"h", "t", "t", "p", ":", "/", "/", "1", "2", "7", ".", "0", ".", "0", ".", "1",
   ":", "9", "0", "0", "0">>,
   \* "http://127.0.0.1:9000/a"
   <<"h", "t", "t", "p", ":", "/", "/", "1", "2", "7", ".", "0", ".", "0", ".", "1",
   ":", "9", "0", "0", "0", "/", "a">>,
   \* "ws://127.8.8.8"
   <<"w", "s", ":", "/", "/", "1", "2", "7", ".", "8", ".", "8", ".", "8">>,
   \* "https://localhost"
   <<"h", "t", "t", "p", "s", ":", "/", "/", "l", "o", "c", "a", "l", "h", "o", "s",
   "t">>,
   \* "http://LocalHost:9000"
   <<"h", "t", "t", "p", ":", "/", "/", "L", "o", "c", "a", "l", "H", "o", "s", "t",
   ":", "9", "0", "0", "0">>,
   \* "http://0.0.0.0:18793"
   <<"h", "t", "t", "p", ":", "/", "/", "0", ".", "0", ".", "0", ".", "0", ":", "1",
   "8", "7", "9", "3">>,
   \* "http://[::1]:9000"
   <<"h", "t", "t", "p", ":", "/", "/", "[", ":", ":", "1", "]", ":", "9", "0", "0",
   "0">>,
   \* "http://[::]:9000"
   <<"h", "t", "t", "p", ":", "/", "/", "[", ":", ":", "]", ":", "9", "0", "0",
   "0">>}
CanvasEndpoints ==
  {[host |-> <<"2", "0", "3", ".", "0", ".", "1", "1", "3", ".", "9">>, lanHost |-> <<>>, tailnetDns |-> <<>>,
     canvasPort |-> 0],
   [host |-> <<"2", "0", "3", ".", "0", ".", "1", "1", "3", ".", "9">>, lanHost |-> <<>>, tailnetDns |-> <<"n", "o", "d", "e", "1", ".", "t", "s", ".", "n", "e", "t">>,
     canvasPort |-> 18793],
   [host |-> <<"2", "0", "3", ".", "0", ".", "1", "1", "3", ".", "9">>, lanHost |-> <<"1", "9", "2", ".", "1", "6", "8", ".", "1", ".", "7">>, tailnetDns |-> <<>>,
     canvasPort |-> 0],
   [host |-> <<"2", "0", "3", ".", "0", ".", "1", "1", "3", ".", "9">>, lanHost |-> <<"1", "9", "2", ".", "1", "6", "8", ".", "1", ".", "7">>, tailnetDns |-> <<"n", "o", "d", "e", "1", ".", "t", "s", ".", "n", "e", "t">>,
     canvasPort |-> 0],
   [host |-> <<"f", "d", "0", "0", ":", ":", "7">>, lanHost |-> <<>>, tailnetDns |-> <<>>,
     canvasPort |-> 0],
   [host |-> <<"1", "0", ".", "0", ".", "0", ".", "7">>, lanHost |-> <<" ">>, tailnetDns |-> <<>>,
     canvasPort |-> 8080],
   [host |-> <<>>, lanHost |-> <<>>, tailnetDns |-> <<>>,
     canvasPort |-> 0]}

\* ----------------------------------------------------------------- state
VARIABLES
  desired,            \* BridgeSession.desired: None or an endpoint name
  job,                \* BridgeSession.job: 0 (null) or the loop it refers to
  canvasHostUrl,      \* BridgeSession.canvasHostUrl
  currentConnection,  \* BridgeSession.currentConnection: 0 (null) or a connection
  pending,            \* BridgeSession.pending: the ids in the table
  deferred,           \* the CompletableDeferred of each request
  reqPc,              \* where each request() call stands
  reqConn,            \* the `conn` local of each request() call
  loopPc,             \* where each runLoop coroutine stands
  attempt,            \* runLoop's `attempt`
  target,             \* runLoop's `target` endpoint
  cancelled,          \* whether the loop's Job has been cancelled
  exitKind,           \* how connectOnce's try block was left: "break" and "event
                      \* without name" (return@withContext) return normally, the
                      \* others are the exception thrown
  conn,               \* connectOnce's `conn`
  sockOpen,           \* whether each connection's socket is open
  nConn,              \* connections made so far
  dLaunched,          \* disconnect() coroutines launched and not yet started
  dJoin,              \* disconnect() coroutines suspended in cancelAndJoin, per loop
  lastStatus,         \* the last message given to onDisconnected
  connectsLeft,       \* connect() calls the caller may still make
  disconnectsLeft,    \* disconnect() calls the caller may still make
  callHistory,        \* the caller's latest calls: "", "c", "d", "dd" (two or more
                      \* disconnect() in a row), "ddc" (connect() right after those)
  atDisconnect,       \* what the latest call, if it was disconnect(), found: whether
                      \* the session was connected, and the requests then awaiting
  result,             \* the id of the RpcResponse each deferred was completed with
  firstSent,          \* the first frame written on each connection the session
                      \* holds ("" = none yet)
  hellos,             \* the hello frames written on each connection it holds
  firstLine,          \* what connectOnce's first readLine() gave on the loop's
                      \* connection ("" = not read yet)
  onConnectedCalls,   \* onConnected invocations for the loop's connection
  exchange,           \* the latest turn of the loop's read loop: the line read, what
                      \* onInvoke did, and the frames written in reply
  watched,            \* whether the turns of the read loop are recorded in exchange
  eventsLeft,         \* sendEvent calls the caller may still make
  slept,              \* runLoop's latest sleepMs (0 = it has not slept yet)
  \* iOS, NodeAppModel:
  bridgeTask,         \* NodeAppModel.bridgeTask: 0 (nil) or the task it refers to
  bridgeStatusText,   \* NodeAppModel.bridgeStatusText
  connectedBridgeID,  \* NodeAppModel.connectedBridgeID: None or an endpoint's id
  taskPc,             \* where each task started by connectToBridge stands
  taskAttempt,        \* the task's `attempt`
  taskCancelled,      \* Task.isCancelled
  taskConnected,      \* whether onConnected ran in the task's latest bridge.connect
  taskSlept,          \* the task's latest sleep, in ms (0 = it has not slept yet)
  iosConnectsLeft,    \* connectToBridge calls the app may still make
  iosDisconnectsLeft, \* disconnectBridge calls the app may still make
  \* One call of normalizeCanvasHostUrl:
  canvasPc,           \* "idle" (no call), "call" (about to be made), "done"
  rawArg,             \* its argument raw
  endpointArg,        \* its argument endpoint
  normalized,         \* what it returned
  \* One call of handleInvoke (iOS NodeAppModel, macOS MacNodeRuntime):
  invokePc,           \* "idle" (no call), "call" (about to be made), "done"
  invokeArg,          \* the platform, the BridgeInvokeRequest and the node's situation
  invokeOut,          \* the BridgeInvokeResponse and the capabilities it used
  \* The callers of Connection.sendJson on one connection:
  writeLock,          \* BridgeSession.writeLock: NoOwner or the caller that holds it
  sendPc,             \* where each caller stands in sendJson
  sendFrame,          \* the frame each caller is sending
  sendsLeft,          \* sendJson calls each caller may still make
  writer,             \* what Connection.writer holds unflushed
  wire,               \* what has been flushed to the socket
  socketOpen,         \* FALSE once closeQuietly closed the socket
  \* The IPC module (src/web/ipc.ts) and the file system entries it looks at:
  server,             \* the module's `server`: NoServer (null) or a net.Server
  ipcDir,             \* what lstat(SOCKET_DIR) sees
  ipcSock,            \* what lstat(SOCKET_PATH) sees
  isRoot,             \* whether the process is the superuser
  ipcLog,             \* how the calls of startIpcServer / stopIpcServer ended
  readiness,          \* one call of MacNodeRuntime.isA2UIReady
  cliSync,            \* the auth profile store under syncClaudeCliCredentials
  invoking,           \* the read loop while it runs an onInvoke handler
  ipcSend             \* one call of sendViaIpc

vars ==
  <<desired, job, canvasHostUrl, currentConnection, pending, deferred, reqPc,
    reqConn, loopPc, attempt, target, cancelled, exitKind, conn, sockOpen, nConn,
    dLaunched, dJoin, lastStatus, connectsLeft, disconnectsLeft, callHistory,
    atDisconnect, result, firstSent, hellos, firstLine, onConnectedCalls, exchange,
    watched, eventsLeft, slept, bridgeTask, bridgeStatusText, connectedBridgeID, taskPc,
    taskAttempt, taskCancelled, taskConnected, taskSlept, iosConnectsLeft,
    iosDisconnectsLeft, canvasPc, rawArg, endpointArg, normalized, invokePc,
    invokeArg, invokeOut, writeLock, sendPc, sendFrame, sendsLeft, writer, wire,
    socketOpen, server, ipcDir, ipcSock, isRoot, ipcLog, readiness, cliSync, invoking,
    ipcSend>>

sessionVars == <<desired, job, canvasHostUrl, currentConnection>>
reqVars == <<pending, deferred, reqPc, reqConn, result>>
loopVars == <<loopPc, attempt, target, cancelled, exitKind, conn, slept>>
netVars == <<sockOpen, nConn>>
discVars == <<dLaunched, dJoin>>
callVars == <<connectsLeft, disconnectsLeft, callHistory, atDisconnect>>
wireVars == <<firstSent, hellos, firstLine, onConnectedCalls, exchange>>
\* The Android session, and the iOS app model.
androidVars ==
  <<sessionVars, reqVars, loopVars, netVars, discVars, callVars, wireVars, lastStatus,
    watched, eventsLeft>>
iosVars ==
  <<bridgeTask, bridgeStatusText, connectedBridgeID, taskPc, taskAttempt, taskCancelled,
    taskConnected, taskSlept, iosConnectsLeft, iosDisconnectsLeft>>

\* The requests whose caller is suspended in deferred.await().
Awaiting == {r \in ReqIds : reqPc[r] = "await" /\ deferred[r] = "fresh"}
NotDisconnecting == [connected |-> FALSE, waiting |-> {}]

\* What readLine() gives: end of stream, an IOException, or a line.  A line is
\* text that is not JSON, JSON that is not an object, or an object with the
\* fields the session reads (type, id, event, canvasHostUrl); "" and 0 stand
\* for an absent (or null) field.
Line(json, type, id, event, canvas) ==
  [json |-> json, type |-> type, id |-> id, event |-> event, canvas |-> canvas]

\* A frame the node writes.  id 0 is an absent id; EmptyId is the id "".
EmptyId == -1
OutFrame(c, type, id, ok, error) ==
  [conn |-> c, type |-> type, id |-> id, ok |-> ok, error |-> error]

\* Texts of the bridge protocol.
Unavailable == <<"U", "N", "A", "V", "A", "I", "L", "A", "B", "L", "E">>
SimpleName == <<"E", "x">>

\* What onInvoke does: returns an InvokeResult (ok, and error <<code, message>>
\* or <<>>), or throws a Throwable with a message (<<>> is no message).
Outcome(thrown, ok, error, message) ==
  [thrown |-> thrown, ok |-> ok, error |-> error, message |-> message]
NoOutcome == Outcome(FALSE, FALSE, <<>>, <<>>)

\* One turn of the read loop: the connection, the line read, what onInvoke did
\* (invoked is FALSE when it was not called) and the frames written.
Exchange(c, line, invoked, outcome, sent) ==
  [conn |-> c, line |-> line, invoked |-> invoked, outcome |-> outcome, sent |-> sent]

NoExchange == Exchange(0, Line("", "", 0, "", NullUrl), FALSE, NoOutcome, <<>>)

\* A new BridgeSession, and the calls its owner will make.
InitSession(connects, disconnects, watch) ==
  /\ desired = None
  /\ job = 0
  /\ canvasHostUrl = NullUrl
  /\ currentConnection = 0
  /\ pending = {}
  /\ deferred = [r \in ReqIds |-> "fresh"]
  /\ reqPc = [r \in ReqIds |-> "new"]
  /\ reqConn = [r \in ReqIds |-> 0]
  /\ loopPc = [j \in Loops |-> "free"]
  /\ attempt = [j \in Loops |-> 0]
  /\ target = [j \in Loops |-> None]
  /\ cancelled = [j \in Loops |-> FALSE]
  /\ exitKind = [j \in Loops |-> "none"]
  /\ conn = [j \in Loops |-> 0]
  /\ sockOpen = [c \in Conns |-> FALSE]
  /\ nConn = 0
  /\ dLaunched = 0
  /\ dJoin = [j \in Loops |-> 0]
  /\ lastStatus = "none"
  /\ connectsLeft = connects
  /\ disconnectsLeft = disconnects
  /\ callHistory = ""
  /\ atDisconnect = NotDisconnecting
  /\ result = [r \in ReqIds |-> 0]
  /\ firstSent = [c \in Conns |-> ""]
  /\ hellos = [c \in Conns |-> 0]
  /\ firstLine = [j \in Loops |-> ""]
  /\ onConnectedCalls = [j \in Loops |-> 0]
  /\ exchange = [j \in Loops |-> NoExchange]
  /\ watched = watch
  /\ eventsLeft = MaxEvents
  /\ slept = [j \in Loops |-> 0]

canvasVars == <<canvasPc, rawArg, endpointArg, normalized>>

\* No call of normalizeCanvasHostUrl outside the handshake.
InitCanvas ==
  /\ canvasPc = "idle"
  /\ rawArg = NullUrl
  /\ endpointArg = Endpoint("E1")
  /\ normalized = NullUrl

\* ------------------------------------------------------------ handleInvoke
\* The command surface (the raw values of ClawdisCanvasCommand,
\* ClawdisCanvasA2UICommand, ClawdisCameraCommand, ClawdisScreenCommand and
\* ClawdisSystemCommand); the iOS node has no system.* commands.
Commands ==
  {"canvas.present", "canvas.hide", "canvas.navigate", "canvas.evalJS", "canvas.snapshot",
   "canvas.a2ui.reset", "canvas.a2ui.push", "canvas.a2ui.pushJSONL",
   "camera.snap", "camera.clip", "screen.record", "system.run", "system.notify"}
Surface(platform) ==
  IF platform = "ios" THEN Commands \ {"system.run", "system.notify"} ELSE Commands

\* A prefix test that no command passes.
noPrefix(command, prefix) == FALSE

\* command.hasPrefix("canvas."), ("camera."), ("screen."), for the command
\* strings of the model.
hasPrefix(command, prefix) ==
  command \in
    CASE prefix = "canvas." ->
           {c \in Commands : c \notin {"camera.snap", "camera.clip", "screen.record",
                                        "system.run", "system.notify"}} \cup {"canvas.foo"}
      [] prefix = "camera." -> {"camera.snap", "camera.clip", "camera.foo"}
      [] prefix = "screen." -> {"screen.record"}

\* A BridgeInvokeRequest.  paramsJSON is "none" (nil), "bad" (text the
\* command's parameter type does not decode from), "ok" (decodes, every field
\* given: a URL, a script, messages, a shell command that needs screen
\* recording, a title and a body, format mp4) or "blank" (decodes, its texts
\* empty: no URL, no shell command, empty title and body, format "").
BridgeInvokeRequest(id, command, paramsJSON) ==
  [id |-> id, command |-> command, paramsJSON |-> paramsJSON]

\* ClawdisNodeError(code:message:): the code by its wire name, the message
\* "PREFIX: rest" as <<PREFIX, rest>> (PREFIX "" when it has none).
ClawdisNodeError(code, message) == [code |-> code, message |-> message]
NoError == ClawdisNodeError("", <<>>)

\* BridgeInvokeResponse(id:ok:payloadJSON:error:), with what the call used of
\* the capabilities behind the dispatcher ("canvas", "camera", "hud", "flash",
\* "voiceWake", "screenRecorder", "shell", "notification", "overlay").
BridgeInvokeResponse(id, ok, payload, error, used) ==
  [res |-> [id |-> id, ok |-> ok, payload |-> payload, error |-> error], used |-> used]

\* decodeParams(type, from: json): the error it throws, or NoError.
decodeParams(json) ==
  IF json = "none" THEN ClawdisNodeError("", <<"INVALID_REQUEST", "paramsJSON required">>)
  ELSE IF json = "bad" THEN ClawdisNodeError("", <<"", "The data couldn't be read">>)
  ELSE NoError

\* A catch block that answers without the error.
Swallowed(req, thrown, used) ==
  BridgeInvokeResponse(req.id, FALSE, FALSE, ClawdisNodeError("", <<>>), used)

\* A dispatcher without gates that knows no command.
KnowsNone(platform, req, env) ==
  BridgeInvokeResponse(req.id, FALSE, FALSE,
    ClawdisNodeError("INVALID_REQUEST", <<"INVALID_REQUEST", "unknown command">>), {})

\* The catch block of handleInvoke: code .unavailable and the thrown error's
\* localizedDescription.
Caught(req, thrown, used) ==
  BridgeInvokeResponse(req.id, FALSE, FALSE, ClawdisNodeError("UNAVAILABLE", thrown.message), used)

\* A capability call that may throw (env.handler = "throws"), then the answer.
Handled(req, env, payload, used) ==
  IF env.handler = "throws"
    THEN Caught(req, ClawdisNodeError("", <<"", "capability failed">>), used)
    ELSE BridgeInvokeResponse(req.id, TRUE, payload, NoError, used)

\* A dispatcher that runs the shell command whatever it was asked.
RunsAnyway(req, env) ==
  BridgeInvokeResponse(req.id, TRUE, TRUE, NoError, {"shell"})

\* The A2UI host: env.a2ui is "loaded" (the canvas already shows a page whose
\* readiness probe answers "true", and no canvas host is advertised), "ready"
\* (a host is advertised and its page becomes ready once shown), "no host"
\* (none advertised, no ready page) or "unreachable" (advertised, never
\* ready).  macOS (caught) probes the canvas before it resolves the host URL
\* (ensureA2UIHost), iOS resolves the host URL first.
A2UI(req, env, caught, used) ==
  IF env.a2ui = "loaded" /\ caught
    THEN Handled(req, env, TRUE, used \cup {"canvas"})
  ELSE IF env.a2ui \in {"no host", "loaded"}
    THEN BridgeInvokeResponse(req.id, FALSE, FALSE,
           ClawdisNodeError("UNAVAILABLE",
                            <<"A2UI_HOST_NOT_CONFIGURED", "gateway did not advertise canvas host">>),
           IF caught THEN {"canvas"} ELSE used)
  ELSE IF env.a2ui = "unreachable"
    THEN BridgeInvokeResponse(req.id, FALSE, FALSE,
           ClawdisNodeError("UNAVAILABLE", <<"A2UI_HOST_UNAVAILABLE", "A2UI host not reachable">>),
           used \cup {"canvas"})
  ELSE Handled(req, env, TRUE, used \cup {"canvas"})

\* The commands both dispatchers treat alike, after their gates: the canvas
\* commands.  caught is TRUE for macOS, where showing a canvas may throw and
\* the A2UI failures are thrown and caught, and FALSE for iOS, where
\* screen.navigate does not throw and the A2UI failures are returned.
CanvasCommand(req, env, caught) ==
  LET thrown == decodeParams(req.paramsJSON)
      shown == IF caught THEN Handled(req, env, FALSE, {"canvas"})
               ELSE BridgeInvokeResponse(req.id, TRUE, FALSE, NoError, {"canvas"})
  IN  CASE req.command = "canvas.present" -> shown
        [] req.command = "canvas.hide" ->
             BridgeInvokeResponse(req.id, TRUE, FALSE, NoError, IF caught THEN {"canvas"} ELSE {})
        [] req.command = "canvas.navigate" ->
             IF thrown # NoError THEN Caught(req, thrown, {}) ELSE shown
        [] req.command = "canvas.evalJS" ->
             IF thrown # NoError THEN Caught(req, thrown, {})
             ELSE Handled(req, env, TRUE, {"canvas"})
        [] req.command = "canvas.snapshot" -> Handled(req, env, TRUE, {"canvas"})
        [] req.command = "canvas.a2ui.reset" -> A2UI(req, env, caught, {})
        [] req.command \in {"canvas.a2ui.push", "canvas.a2ui.pushJSONL"} ->
             IF thrown # NoError THEN Caught(req, thrown, {})
             ELSE A2UI(req, env, caught, {})

\* NodeAppModel.handleInvoke(req).
NodeAppModel_handleInvoke(req, env) ==
  LET command == req.command
  IN  IF /\ hasPrefix(command, "canvas.") \/ hasPrefix(command, "camera.")
              \/ hasPrefix(command, "screen.")
         /\ env.isBackgrounded
        THEN BridgeInvokeResponse(req.id, FALSE, FALSE,
               ClawdisNodeError("NODE_BACKGROUND_UNAVAILABLE",
                                <<"NODE_BACKGROUND_UNAVAILABLE",
                                  "canvas/camera/screen commands require foreground">>), {})
      ELSE IF hasPrefix(command, "camera.") /\ ~env.cameraEnabled
        THEN BridgeInvokeResponse(req.id, FALSE, FALSE,
               ClawdisNodeError("UNAVAILABLE", <<"CAMERA_DISABLED", "enable Camera in iOS Settings">>),
               {})
      ELSE CASE command \in Surface("ios") /\ hasPrefix(command, "canvas.") ->
                  CanvasCommand(req, env, FALSE)
             [] command = "camera.snap" ->
                  Handled(req, env, TRUE, {"hud", "flash", "camera"})
             [] command = "camera.clip" ->
                  Handled(req, env, TRUE, {"voiceWake", "hud", "camera"})
             [] command = "screen.record" ->
                  IF req.paramsJSON = "blank"
                    THEN Caught(req, ClawdisNodeError("", <<"INVALID_REQUEST",
                                                             "screen format must be mp4">>), {})
                    ELSE Handled(req, env, TRUE, {"screenRecorder"})
             [] OTHER ->
                  BridgeInvokeResponse(req.id, FALSE, FALSE,
                    ClawdisNodeError("INVALID_REQUEST", <<"INVALID_REQUEST", "unknown command">>), {})

\* MacNodeRuntime.handleSystemRun(req) and handleSystemNotify(req).
handleSystemRun(req, env) ==
  LET thrown == decodeParams(req.paramsJSON)
  IN  IF thrown # NoError THEN Caught(req, thrown, {})
      ELSE IF req.paramsJSON = "blank"
        THEN BridgeInvokeResponse(req.id, FALSE, FALSE,
               ClawdisNodeError("INVALID_REQUEST", <<"INVALID_REQUEST", "command required">>), {})
      ELSE IF env.handler = "denied"
        THEN BridgeInvokeResponse(req.id, FALSE, FALSE,
               ClawdisNodeError("UNAVAILABLE", <<"PERMISSION_MISSING", "screenRecording">>), {})
      ELSE Handled(req, env, TRUE, {"shell"})

handleSystemNotify(req, env) ==
  LET thrown == decodeParams(req.paramsJSON)
  IN  IF thrown # NoError THEN Caught(req, thrown, {})
      ELSE IF req.paramsJSON = "blank"
        THEN BridgeInvokeResponse(req.id, FALSE, FALSE,
               ClawdisNodeError("INVALID_REQUEST", <<"INVALID_REQUEST", "empty notification">>), {})
      ELSE IF env.handler = "denied"
        THEN BridgeInvokeResponse(req.id, FALSE, FALSE,
               ClawdisNodeError("UNAVAILABLE", <<"NOT_AUTHORIZED", "notifications">>),
               {"notification"})
      ELSE BridgeInvokeResponse(req.id, TRUE, FALSE, NoError, {"notification"})

\* MacNodeRuntime.handleInvoke(req).
MacNodeRuntime_handleInvoke(req, env) ==
  LET command == req.command
      disabled ==
        BridgeInvokeResponse(req.id, FALSE, FALSE,
          ClawdisNodeError("UNAVAILABLE", <<"CAMERA_DISABLED", "enable Camera in Settings">>), {})
  IN  IF hasPrefix(command, "canvas.") /\ ~env.canvasEnabled
        THEN BridgeInvokeResponse(req.id, FALSE, FALSE,
               ClawdisNodeError("UNAVAILABLE", <<"CANVAS_DISABLED", "enable Canvas in Settings">>),
               {})
      ELSE CASE command \in Surface("macos") /\ hasPrefix(command, "canvas.") ->
                  CanvasCommand(req, env, TRUE)
             [] command \in {"camera.snap", "camera.clip"} ->
                  IF ~env.cameraEnabled THEN disabled
                  ELSE Handled(req, env, TRUE, {"camera"})
             [] command = "screen.record" -> Handled(req, env, TRUE, {"screenRecorder"})
             [] command = "system.run" -> handleSystemRun(req, env)
             [] command = "system.notify" -> handleSystemNotify(req, env)
             [] OTHER ->
                  BridgeInvokeResponse(req.id, FALSE, FALSE,
                    ClawdisNodeError("INVALID_REQUEST", <<"INVALID_REQUEST", "unknown command">>), {})

handleInvoke(platform, req, env) ==
  IF platform = "ios" THEN NodeAppModel_handleInvoke(req, env)
  ELSE MacNodeRuntime_handleInvoke(req, env)

\* The requests and situations handleInvoke is applied to.
InvokeRequests ==
  {BridgeInvokeRequest(id, command, json) :
     id \in {"i1", "i2"},
     command \in Commands \cup {"canvas.foo", "camera.foo", "foo", ""},
     json \in {"none", "bad", "ok", "blank"}}
Situations ==
  [isBackgrounded : BOOLEAN, cameraEnabled : BOOLEAN, canvasEnabled : BOOLEAN,
   handler : {"ok", "throws", "denied"},
   a2ui : {"loaded", "ready", "no host", "unreachable"}]

dispatchVars == <<invokePc, invokeArg, invokeOut>>
NoInvoke == BridgeInvokeResponse("", FALSE, FALSE, NoError, {})

\* No call of handleInvoke.
InitDispatch ==
  /\ invokePc = "idle"
  /\ invokeArg = [platform |-> "ios", req |-> BridgeInvokeRequest("", "", "none"),
                  env |-> CHOOSE e \in Situations : TRUE]
  /\ invokeOut = NoInvoke

\* The coroutines that call sendJson on a connection: a caller of sendEvent,
\* a caller of request, and the read loop (pong, invoke-res).
Senders == {"sendEvent", "request", "readLoop"}
NoOwner == ""

writerVars == <<writeLock, sendPc, sendFrame, sendsLeft, writer, wire, socketOpen>>

\* A Mutex that is held by nobody.
noLock(owner) == TRUE

\* Mutex.withLock: the lock can be taken when nobody owns it.
tryLock(owner) == owner = NoOwner

\* No caller of sendJson, the given number of calls to come.
InitWriter(calls) ==
  /\ writeLock = NoOwner
  /\ sendPc = [s \in Senders |-> "idle"]
  /\ sendFrame = [s \in Senders |-> [from |-> s, type |-> "", n |-> 0]]
  /\ sendsLeft = [s \in Senders |-> calls]
  /\ writer = <<>>
  /\ wire = <<>>
  /\ socketOpen = TRUE

NoServer == [listening |-> FALSE, null |-> TRUE]
ipcVars == <<server, ipcDir, ipcSock, isRoot, ipcLog>>
Missing == [kind |-> "missing", owner |-> "me", mode |-> "700"]

\* An unlink that removes nothing and reports nothing.
unlinkIgnored(path, dir, root) == [code |-> "none", path |-> path]

\* fs.unlinkSync(SOCKET_PATH): the error code it throws ("none" when it
\* returns) and the entry afterwards. The entry can be removed when the
\* process may write the directory.
unlinkSync(path, dir, root) ==
  IF path.kind = "missing" THEN [code |-> "ENOENT", path |-> path]
  ELSE IF path.kind = "dir" THEN [code |-> "EISDIR", path |-> path]
  ELSE IF dir.owner = "me" \/ root THEN [code |-> "none", path |-> Missing]
  ELSE [code |-> "EACCES", path |-> path]

\* ensureSocketDir: whether it throws, and the directory entry afterwards.
ensureSocketDir(dir, root) ==
  IF dir.kind = "missing"
    THEN [threw |-> FALSE, dir |-> [kind |-> "dir", owner |-> "me", mode |-> "700"]]
  ELSE IF dir.kind = "symlink" THEN [threw |-> TRUE, dir |-> dir]
  ELSE IF dir.kind # "dir" THEN [threw |-> TRUE, dir |-> dir]
  ELSE IF ~(dir.owner = "me" \/ root) THEN [threw |-> TRUE, dir |-> dir]  \* chmod: EPERM
  ELSE [threw |-> dir.owner # "me", dir |-> [dir EXCEPT !.mode = "700"]]

\* A check of the socket path that accepts everything.
assumeSafe(path) == FALSE

\* assertSafeSocketPath: TRUE when it throws.
assertSafeSocketPath(path) ==
  IF path.kind = "missing" THEN FALSE
  ELSE IF path.kind = "symlink" THEN TRUE
  ELSE path.owner # "me"

\* isRelayRunning(), of the entry at the socket path.
isRelayRunning(path) ==
  IF assertSafeSocketPath(path) THEN FALSE
  ELSE path.kind # "missing"

\* The module just loaded, no call made, the file system holding any of the
\* given entries and the process being any of the given users.
InitIpc(entries, users) ==
  /\ server = NoServer
  /\ ipcLog = <<>>
  /\ isRoot \in users
  /\ ipcDir \in {d \in entries : d.kind \in {"missing", "dir", "symlink", "file"}}
  /\ ipcSock \in {f \in entries : f.kind \in {"missing", "socket", "symlink", "file", "dir"}}
  /\ ipcDir.kind = "missing" => ipcDir = Missing
  /\ ipcDir.kind = "symlink" => ipcDir.mode = "777"
  /\ ipcDir.kind = "dir" => ipcDir.mode \in {"700", "755"}
  /\ ipcDir.kind \in {"missing", "file"} => ipcSock = Missing
  /\ ipcSock.kind = "missing" => ipcSock = Missing
  /\ ipcSock.kind # "missing" => ipcSock.mode = "600"

\* The parts that are not in use, but for the one named.
InitTools(used) ==
  /\ used # "canvas" => InitCanvas
  /\ used # "dispatch" => InitDispatch
  /\ used # "writer" => InitWriter(0)
  /\ used # "ipc" => InitIpc({Missing}, {FALSE})
  /\ used # "readiness" => readiness = [pc |-> "idle"]
  /\ used # "cliSync" => cliSync = [pc |-> "idle"]
  /\ used # "invoking" => invoking = [pc |-> "idle"]
  /\ used # "ipcSend" => ipcSend = [pc |-> "idle"]

toolVars ==
  <<canvasVars, dispatchVars, writerVars, ipcVars, readiness, cliSync, invoking, ipcSend>>

\* A new NodeAppModel, and the calls the app will make.
InitApp(connects, disconnects) ==
  /\ bridgeTask = 0
  /\ bridgeStatusText = "Offline"
  /\ connectedBridgeID = None
  /\ taskPc = [t \in Tasks |-> "free"]
  /\ taskAttempt = [t \in Tasks |-> 0]
  /\ taskCancelled = [t \in Tasks |-> FALSE]
  /\ taskConnected = [t \in Tasks |-> FALSE]
  /\ taskSlept = [t \in Tasks |-> 0]
  /\ iosConnectsLeft = connects
  /\ iosDisconnectsLeft = disconnects

Init == InitSession(MaxConnectCalls, MaxDisconnectCalls, FALSE) /\ InitApp(0, 0) /\ InitTools("")

\* ------------------------------------------------------ connect/disconnect
FreeLoops == {j \in Loops : loopPc[j] = "free"}
NewLoop == CHOOSE j \in FreeLoops : \A k \in FreeLoops : j <= k

\* connect(endpoint, hello): desired = endpoint to hello; launch runLoop if job == null.
connect(e) ==
  /\ connectsLeft > 0
  /\ job = 0 => FreeLoops # {}
  /\ connectsLeft' = connectsLeft - 1
  /\ callHistory' = IF callHistory = "dd" THEN "ddc" ELSE "c"
  /\ atDisconnect' = NotDisconnecting
  /\ desired' = e
  /\ IF job = 0
       THEN /\ job' = NewLoop
            /\ loopPc' = [loopPc EXCEPT ![NewLoop] = "top"]
            /\ attempt' = [attempt EXCEPT ![NewLoop] = 0]
            /\ slept' = [slept EXCEPT ![NewLoop] = 0]
       ELSE UNCHANGED <<job, loopPc, attempt, slept>>
  /\ UNCHANGED <<canvasHostUrl, currentConnection, reqVars, target, cancelled,
                 exitKind, conn, netVars, discVars, lastStatus, disconnectsLeft,
                 wireVars,
                 watched, eventsLeft, iosVars, toolVars>>

\* disconnect(): desired = null; launch the coroutine that cancels and joins job.
disconnect ==
  /\ disconnectsLeft > 0
  /\ disconnectsLeft' = disconnectsLeft - 1
  /\ callHistory' = IF callHistory \in {"d", "dd"} THEN "dd" ELSE "d"
  /\ atDisconnect' =
       IF \E j \in Loops : job = j /\ loopPc[j] = "read" /\ currentConnection = conn[j]
         THEN [connected |-> TRUE, waiting |-> Awaiting \cap pending]
         ELSE NotDisconnecting
  /\ desired' = None
  /\ dLaunched' = dLaunched + 1
  /\ UNCHANGED <<job, canvasHostUrl, currentConnection, reqVars, loopVars, netVars,
                 dJoin, lastStatus, connectsLeft, wireVars,
                 watched, eventsLeft, iosVars, toolVars>>

\* The epilogue of disconnect()'s coroutine: job = null; canvasHostUrl = null;
\* onDisconnected("Offline").
DisconnectEpilogue ==
  /\ job' = 0
  /\ canvasHostUrl' = NullUrl
  /\ lastStatus' = "Offline"

\* The coroutine starts: job?.cancelAndJoin().  With job == null it runs to its
\* end; otherwise it cancels the loop's Job and suspends until the loop is over.
DisconnectStart ==
  /\ dLaunched > 0
  /\ dLaunched' = dLaunched - 1
  /\ IF job = 0
       THEN /\ DisconnectEpilogue
            /\ UNCHANGED <<cancelled, dJoin>>
       ELSE /\ cancelled' = [cancelled EXCEPT ![job] = TRUE]
            /\ dJoin' = [dJoin EXCEPT ![job] = @ + 1]
            /\ UNCHANGED <<job, canvasHostUrl, lastStatus>>
  /\ UNCHANGED <<desired, currentConnection, reqVars, loopPc, attempt, target,
                 exitKind, conn, netVars, callVars, wireVars,
                 watched, eventsLeft, slept, iosVars, toolVars>>

\* cancelAndJoin returns once the loop's coroutine is over.  A finished loop
\* that no coroutine waits for any more is garbage: its slot is free again.
DisconnectJoined(j) ==
  /\ dJoin[j] > 0
  /\ loopPc[j] = "done"
  /\ dJoin' = [dJoin EXCEPT ![j] = @ - 1]
  /\ DisconnectEpilogue
  /\ IF dJoin[j] = 1
       THEN /\ loopPc' = [loopPc EXCEPT ![j] = "free"]
            /\ attempt' = [attempt EXCEPT ![j] = 0]
            /\ target' = [target EXCEPT ![j] = None]
            /\ cancelled' = [cancelled EXCEPT ![j] = FALSE]
            /\ slept' = [slept EXCEPT ![j] = 0]
       ELSE UNCHANGED <<loopPc, attempt, target, cancelled, slept>>
  /\ UNCHANGED <<desired, currentConnection, reqVars, exitKind, conn, netVars,
                 dLaunched, callVars, wireVars,
                 watched, eventsLeft, iosVars, toolVars>>

\* ------------------------------------------------------------ the wire
BadJson == Line("bad", "", 0, "", NullUrl)
NonObject == Line("nonobj", "", 0, "", NullUrl)
Frame(type, id, event) == Line("obj", type, id, event, NullUrl)
HelloOk(canvas) == Line("obj", "hello-ok", 0, "", canvas)

FirstLines ==
  {BadJson, NonObject}
    \cup {HelloOk(u) : u \in RawCanvasUrls}
    \cup {Frame(t, 0, "") : t \in {"error", "", "other", "ping"}}

LoopLines ==
  {BadJson, NonObject}
    \cup {Frame(t, i, "") :
            t \in {"", "other", "ping", "res", "invoke", "invoke-res"}, i \in 0..MaxReq}
    \cup {Frame("event", 0, e) : e \in {"", "ev"}}

\* What onInvoke does in the model's runs.
HandlerOutcomes ==
  {Outcome(FALSE, TRUE, <<>>, <<>>),
   Outcome(FALSE, FALSE, <<Unavailable, <<"n", "o">>>>, <<>>)}
    \cup {Outcome(TRUE, FALSE, <<>>, m) :
            m \in {<<>>, <<"b", "a", "d">>, <<"N", "O", "_", "C", "A", "M", ":", " ", "o", "f", "f">>,
                   <<"n", "o", "t", "e", ":", "x">>, <<"G", "O", "N", "E", ":">>}}

\* ------------------------------------------------------------- runLoop
\* 10^n and 17^n, for 1.7^n = 17^n / 10^n.
RECURSIVE Pow(_, _)
Pow(b, n) == IF n = 0 THEN 1 ELSE b * Pow(b, n - 1)

\* min(cap, (base * 1.7^attempt) truncated), in milliseconds.  From 1.7^6 on
\* the product is above 8000, the largest cap, and is not computed.
BackoffMs(base, cap, n) ==
  IF n >= 6 THEN cap
  ELSE LET ms == (base * Pow(17, n)) \div Pow(10, n)
       IN  IF ms < cap THEN ms ELSE cap

\* val sleepMs = minOf(8_000L, (350.0 * Math.pow(1.7, attempt.toDouble())).toLong())
sleepMs(n) == BackoffMs(350, 8000, n)

\* catch (err: Throwable): attempt += 1; onDisconnected("Bridge error: ...");
\* then delay(sleepMs).
Catch(j) ==
  /\ attempt' = [attempt EXCEPT ![j] = @ + 1]
  /\ lastStatus' = "Bridge error"
  /\ slept' = [slept EXCEPT ![j] = sleepMs(attempt[j] + 1)]
  /\ loopPc' = [loopPc EXCEPT ![j] = "backoff"]

\* One pass of the while loop up to its first blocking call.  With nothing
\* desired: close and forget the current connection, then delay(250).  Otherwise
\* report the status and enter connectOnce, whose withContext throws at once when
\* the Job is already cancelled.
Top(j) ==
  /\ loopPc[j] = "top"
  /\ IF desired = None
       THEN /\ sockOpen' = [c \in Conns |-> IF c = currentConnection THEN FALSE ELSE sockOpen[c]]
            /\ currentConnection' = 0
            /\ loopPc' = [loopPc EXCEPT ![j] = "idle"]
            /\ UNCHANGED <<attempt, target, lastStatus, slept>>
       ELSE /\ target' = [target EXCEPT ![j] = desired]
            /\ IF cancelled[j]
                 THEN Catch(j)
                 ELSE /\ lastStatus' = IF attempt[j] = 0 THEN "Connecting" ELSE "Reconnecting"
                      /\ loopPc' = [loopPc EXCEPT ![j] = "dial"]
                      /\ UNCHANGED <<attempt, slept>>
            /\ UNCHANGED <<sockOpen, currentConnection>>
  /\ UNCHANGED <<desired, job, canvasHostUrl, reqVars, cancelled, exitKind, conn,
                 nConn, discVars, callVars, wireVars,
                 watched, eventsLeft, iosVars, toolVars>>

\* delay(250) and delay(sleepMs): a cancelled Job ends there, another resumes.
Delay(j) ==
  /\ loopPc[j] \in {"idle", "backoff"}
  /\ loopPc' = [loopPc EXCEPT ![j] = IF cancelled[j] THEN "done" ELSE "top"]
  /\ UNCHANGED <<sessionVars, reqVars, attempt, target, cancelled, exitKind, conn,
                 netVars, discVars, lastStatus, callVars, wireVars,
                 watched, eventsLeft, slept, iosVars, toolVars>>

\* ----------------------------------------------------------- connectOnce
\* socket.connect succeeds: currentConnection = conn.
DialOk(j) ==
  /\ loopPc[j] = "dial"
  /\ nConn < MaxConn
  /\ nConn' = nConn + 1
  /\ sockOpen' = [sockOpen EXCEPT ![nConn + 1] = TRUE]
  /\ conn' = [conn EXCEPT ![j] = nConn + 1]
  /\ currentConnection' = nConn + 1
  /\ loopPc' = [loopPc EXCEPT ![j] = "hello"]
  /\ UNCHANGED <<desired, job, canvasHostUrl, reqVars, attempt, target, cancelled,
                 exitKind, discVars, lastStatus, callVars, wireVars,
                 watched, eventsLeft, slept, iosVars, toolVars>>

\* socket.connect throws (refused, or the 8 s timeout): this is before the try
\* block, so the exception goes straight to runLoop's catch.
DialFail(j) ==
  /\ loopPc[j] = "dial"
  /\ attempt[j] < MaxAttempt \/ cancelled[j]
  /\ Catch(j)
  /\ UNCHANGED <<sessionVars, reqVars, target, cancelled, exitKind, conn, netVars,
                 discVars, callVars, wireVars,
                 watched, eventsLeft, iosVars, toolVars>>

\* Leaving the try block for the finally block.
Exit(j, kind) ==
  /\ loopPc' = [loopPc EXCEPT ![j] = "fin1"]
  /\ exitKind' = [exitKind EXCEPT ![j] = kind]

\* A frame is written on connection c.
Written(c, type) ==
  firstSent' = [firstSent EXCEPT ![c] = IF @ = "" THEN type ELSE @]

\* conn.sendJson(hello), the first statement of the try block: written, or an
\* IOException.
Hello(j) ==
  /\ loopPc[j] = "hello"
  /\ \/ /\ sockOpen[conn[j]]
        /\ Written(conn[j], "hello")
        /\ hellos' = [hellos EXCEPT ![conn[j]] = @ + 1]
        /\ loopPc' = [loopPc EXCEPT ![j] = "hs"]
        /\ UNCHANGED exitKind
     \/ /\ Exit(j, "io")
        /\ UNCHANGED <<firstSent, hellos>>
  /\ UNCHANGED <<sessionVars, reqVars, attempt, target, cancelled, conn, netVars,
                 discVars, lastStatus, callVars, firstLine, onConnectedCalls, exchange,
                 watched, eventsLeft, slept, iosVars, toolVars>>

\* What the first readLine() gave, for firstLine.
FirstKind(line) ==
  IF line.json # "obj" THEN line.json
  ELSE IF line.type = "" THEN "no type" ELSE line.type

\* The handshake: the first line read decides.
Handshake(j) ==
  /\ loopPc[j] = "hs"
  /\ \/ /\ sockOpen[conn[j]]
        /\ \E line \in FirstLines :
             /\ firstLine' = [firstLine EXCEPT ![j] = FirstKind(line)]
             /\ IF line.json = "bad" THEN
                  Exit(j, "first line unparsable") /\ UNCHANGED <<canvasHostUrl, onConnectedCalls>>
                ELSE IF line.json = "nonobj" THEN
                  Exit(j, "unexpected bridge response") /\ UNCHANGED <<canvasHostUrl, onConnectedCalls>>
                ELSE IF line.type = "hello-ok" THEN
                  /\ canvasHostUrl' = normalizeCanvasHostUrl(line.canvas, Endpoint(target[j]))
                  /\ onConnectedCalls' = [onConnectedCalls EXCEPT ![j] = @ + 1]
                  /\ loopPc' = [loopPc EXCEPT ![j] = "read"]
                  /\ UNCHANGED exitKind
                ELSE IF line.type = "error" THEN
                  Exit(j, "error") /\ UNCHANGED <<canvasHostUrl, onConnectedCalls>>
                ELSE
                  Exit(j, "unexpected bridge response") /\ UNCHANGED <<canvasHostUrl, onConnectedCalls>>
     \/ /\ sockOpen[conn[j]]
        /\ firstLine' = [firstLine EXCEPT ![j] = "eof"]
        /\ Exit(j, "bridge closed connection")
        /\ UNCHANGED <<canvasHostUrl, onConnectedCalls>>
     \/ /\ firstLine' = [firstLine EXCEPT ![j] = "io"]
        /\ Exit(j, "io")
        /\ UNCHANGED <<canvasHostUrl, onConnectedCalls>>
  /\ UNCHANGED <<desired, job, currentConnection, reqVars, attempt, target, cancelled,
                 conn, netVars, discVars, lastStatus, callVars, firstSent, hellos,
                 exchange,
                 watched, eventsLeft, slept, iosVars, toolVars>>

\* What a table matched by arrival order would do: the res completes the oldest
\* slot, whatever its id.
CompleteOldest(id) ==
  LET slot == IF pending = {} THEN id ELSE CHOOSE r \in pending : \A q \in pending : r <= q
  IN  /\ pending' = pending \ {slot}
      /\ deferred' = [deferred EXCEPT ![slot] =
                        IF slot \in pending /\ @ = "fresh" THEN "completed" ELSE @]
      /\ result' = [result EXCEPT ![slot] =
                      IF slot \in pending /\ deferred[slot] = "fresh" THEN id ELSE @]

\* pending.remove(id)?.complete(RpcResponse(id, ok, payloadJson, error)):
\* completing a deferred that is already cancelled changes nothing.
Complete(id) ==
  /\ pending' = pending \ {id}
  /\ deferred' = [deferred EXCEPT ![id] =
                    IF id \in pending /\ @ = "fresh" THEN "completed" ELSE @]
  /\ result' = [result EXCEPT ![id] =
                  IF id \in pending /\ deferred[id] = "fresh" THEN id ELSE @]

\* InvokeResult(ok, payloadJson, error): error is <<>> (null) or <<code, message>>.
InvokeResult(ok, error) == [ok |-> ok, error |-> error]

\* invokeErrorFromThrowable(err), on err.message (<<>> when null): a message
\* "CODE: rest", CODE in capitals and underscores, gives that code; any other
\* gives UNAVAILABLE.
invokeErrorFromThrowable(message) ==
  LET msg == IF Trim(message) = <<>> THEN SimpleName ELSE Trim(message)
      colons == {i \in 1..Len(msg) : msg[i] = ":"}
      at == CHOOSE i \in colons : \A k \in colons : i <= k
      code == Trim(SubSeq(msg, 1, at - 1))
      rest == Trim(SubSeq(msg, at + 1, Len(msg)))
  IN  IF /\ colons # {}
         /\ code # <<>>
         /\ \A i \in 1..Len(code) : code[i] \in UpperCase \cup {"_"}
        THEN InvokeResult(FALSE, <<code, IF rest = <<>> THEN msg ELSE rest>>)
        ELSE InvokeResult(FALSE, <<Unavailable, msg>>)

\* What a read loop without the conversion would answer: no error object.
InvokeResultBare(outcome) == InvokeResult(outcome.ok, outcome.error)

\* The InvokeResult of a turn: what onInvoke returned, or the conversion of
\* what it threw.
InvokeResultOf(outcome) ==
  IF outcome.thrown THEN invokeErrorFromThrowable(outcome.message)
  ELSE InvokeResult(outcome.ok, outcome.error)

\* What a read loop that numbered its pongs itself would write.
PongBlank(c, id) == OutFrame(c, "pong", EmptyId, FALSE, <<>>)

\* The pong for a ping: val id = frame["id"].asStringOrNull() ?: "".
PongFor(c, id) == OutFrame(c, "pong", IF id = 0 THEN EmptyId ELSE id, FALSE, <<>>)

\* The invoke-res for an invoke and its InvokeResult.
InvokeRes(c, id, res) == OutFrame(c, "invoke-res", id, res.ok, res.error)

\* A turn of the read loop, recorded when the session is watched.
Turn(j, line, invoked, outcome, sent) ==
  exchange' = IF watched
                THEN [exchange EXCEPT ![j] = Exchange(conn[j], line, invoked, outcome, sent)]
                ELSE exchange

\* conn.sendJson(frame) from the read loop: written, or an IOException.
Reply(j, line, invoked, outcome, frame) ==
  \/ /\ sockOpen[conn[j]]
     /\ Turn(j, line, invoked, outcome, <<frame>>)
     /\ UNCHANGED <<loopPc, exitKind>>
  \/ /\ Turn(j, line, invoked, outcome, <<>>)
     /\ Exit(j, "io")

\* A turn of the read loop that writes nothing.
NoReply(j, line) == Turn(j, line, FALSE, NoOutcome, <<>>)

\* One turn of the read loop on a line.
ReadLine(j) ==
  /\ loopPc[j] = "read"
  /\ sockOpen[conn[j]]
  /\ \E line \in LoopLines :
       IF line.json = "bad" THEN
         Exit(j, "line unparsable") /\ NoReply(j, line) /\ UNCHANGED <<pending, deferred, result>>
       ELSE IF line.json = "nonobj" THEN
         NoReply(j, line) /\ UNCHANGED <<loopPc, exitKind, pending, deferred, result>>
       ELSE IF line.type = "event" THEN
         /\ IF line.event = "" THEN Exit(j, "event without name") ELSE UNCHANGED <<loopPc, exitKind>>
         /\ NoReply(j, line)
         /\ UNCHANGED <<pending, deferred, result>>
       ELSE IF line.type = "ping" THEN
         /\ Reply(j, line, FALSE, NoOutcome, PongFor(conn[j], line.id))
         /\ UNCHANGED <<pending, deferred, result>>
       ELSE IF line.type = "res" THEN
         /\ IF line.id = 0 THEN UNCHANGED <<pending, deferred, result>> ELSE Complete(line.id)
         /\ NoReply(j, line)
         /\ UNCHANGED <<loopPc, exitKind>>
       ELSE IF line.type = "invoke" THEN
         /\ IF line.id = 0
              THEN NoReply(j, line) /\ UNCHANGED <<loopPc, exitKind>>
              ELSE \E outcome \in HandlerOutcomes :
                     Reply(j, line, TRUE, outcome,
                           InvokeRes(conn[j], line.id, InvokeResultOf(outcome)))
         /\ UNCHANGED <<pending, deferred, result>>
       ELSE
         NoReply(j, line) /\ UNCHANGED <<loopPc, exitKind, pending, deferred, result>>
  /\ UNCHANGED <<sessionVars, reqPc, reqConn, attempt, target, cancelled, conn,
                 netVars, discVars, lastStatus, callVars, firstSent, hellos, firstLine,
                 onConnectedCalls,
                 watched, eventsLeft, slept, iosVars, toolVars>>

\* readLine() returns null (the gateway closed the stream): break.
ReadEof(j) ==
  /\ loopPc[j] = "read"
  /\ sockOpen[conn[j]]
  /\ Exit(j, "break")
  /\ UNCHANGED <<sessionVars, reqVars, attempt, target, cancelled, conn, netVars,
                 discVars, lastStatus, callVars, wireVars,
                 watched, eventsLeft, slept, iosVars, toolVars>>

\* readLine() throws: the network failed, or the socket was closed under it.
ReadError(j) ==
  /\ loopPc[j] = "read"
  /\ Exit(j, "io")
  /\ UNCHANGED <<sessionVars, reqVars, attempt, target, cancelled, conn, netVars,
                 discVars, lastStatus, callVars, wireVars,
                 watched, eventsLeft, slept, iosVars, toolVars>>

\* finally, first half: currentConnection = null; cancel every waiter in pending.
Finally1(j) ==
  /\ loopPc[j] = "fin1"
  /\ currentConnection' = 0
  /\ deferred' = [r \in ReqIds |->
                    IF r \in pending /\ deferred[r] = "fresh" THEN "cancelled" ELSE deferred[r]]
  /\ loopPc' = [loopPc EXCEPT ![j] = "fin2"]
  /\ UNCHANGED <<desired, job, canvasHostUrl, pending, reqPc, reqConn, result, attempt,
                 target, cancelled, exitKind, conn, netVars, discVars, lastStatus,
                 callVars, wireVars,
                 watched, eventsLeft, slept, iosVars, toolVars>>

\* finally, second half: pending.clear(); conn.closeQuietly(), and what was
\* recorded of the connection is dropped with it.  Then back in
\* runLoop: a normal return of a Job that is not cancelled sets attempt = 0;
\* an exception, or the CancellationException withContext throws on leaving a
\* cancelled Job, goes to the catch.
Finally2(j) ==
  /\ loopPc[j] = "fin2"
  /\ pending' = {}
  /\ sockOpen' = [sockOpen EXCEPT ![conn[j]] = FALSE]
  /\ conn' = [conn EXCEPT ![j] = 0]
  /\ exitKind' = [exitKind EXCEPT ![j] = "none"]
  /\ IF exitKind[j] \in {"break", "event without name"} /\ ~cancelled[j]
       THEN /\ attempt' = [attempt EXCEPT ![j] = 0]
            /\ loopPc' = [loopPc EXCEPT ![j] = "top"]
            /\ UNCHANGED <<lastStatus, slept>>
       ELSE Catch(j)
  /\ firstSent' = [firstSent EXCEPT ![conn[j]] = ""]
  /\ hellos' = [hellos EXCEPT ![conn[j]] = 0]
  /\ firstLine' = [firstLine EXCEPT ![j] = ""]
  /\ onConnectedCalls' = [onConnectedCalls EXCEPT ![j] = 0]
  /\ exchange' = [exchange EXCEPT ![j] = NoExchange]
  /\ UNCHANGED <<sessionVars, deferred, reqPc, reqConn, result, target, cancelled,
                 nConn, discVars, callVars, watched, eventsLeft, iosVars, toolVars>>

\* ---------------------------------------------------------------- request
\* val conn = currentConnection ?: throw IllegalStateException("not connected")
\* A request() that registers its waiter before it looks for a connection.
requestAnyway(r) ==
  /\ reqPc[r] = "new"
  /\ r > 1 => reqPc[r - 1] # "new"
  /\ pending' = pending \cup {r}
  /\ IF currentConnection = 0
       THEN reqPc' = [reqPc EXCEPT ![r] = "not connected"] /\ UNCHANGED reqConn
       ELSE /\ reqPc' = [reqPc EXCEPT ![r] = "conn"]
            /\ reqConn' = [reqConn EXCEPT ![r] = currentConnection]
  /\ UNCHANGED <<sessionVars, deferred, result, loopVars, netVars, discVars,
                 lastStatus, callVars, wireVars,
                 watched, eventsLeft, iosVars, toolVars>>

request(r) ==
  /\ reqPc[r] = "new"
  /\ r > 1 => reqPc[r - 1] # "new"
  /\ IF currentConnection = 0
       THEN reqPc' = [reqPc EXCEPT ![r] = "not connected"] /\ UNCHANGED reqConn
       ELSE /\ reqPc' = [reqPc EXCEPT ![r] = "conn"]
            /\ reqConn' = [reqConn EXCEPT ![r] = currentConnection]
  /\ UNCHANGED <<sessionVars, pending, deferred, result, loopVars, netVars, discVars,
                 lastStatus, callVars, wireVars,
                 watched, eventsLeft, iosVars, toolVars>>

\* sendEvent(event, payloadJson): without a current connection it returns;
\* with one, the event frame is written, or sendJson throws an IOException.
sendEvent ==
  /\ eventsLeft > 0
  /\ eventsLeft' = eventsLeft - 1
  /\ IF currentConnection = 0
       THEN UNCHANGED firstSent
       ELSE \/ sockOpen[currentConnection] /\ Written(currentConnection, "event")
            \/ UNCHANGED firstSent
  /\ UNCHANGED <<sessionVars, reqVars, loopVars, netVars, discVars, lastStatus, callVars,
                 hellos, firstLine, onConnectedCalls, exchange, watched, iosVars, toolVars>>

\* pending[id] = deferred; conn.sendJson(req): written, and the caller awaits, or
\* an IOException, which request() lets through.
requestSend(r) ==
  /\ reqPc[r] = "conn"
  /\ pending' = pending \cup {r}
  /\ \/ /\ sockOpen[reqConn[r]]
        /\ Written(reqConn[r], "req")
        /\ reqPc' = [reqPc EXCEPT ![r] = "await"]
     \/ /\ reqPc' = [reqPc EXCEPT ![r] = "send failed"]
        /\ UNCHANGED firstSent
  /\ UNCHANGED <<sessionVars, deferred, reqConn, result, loopVars, netVars, discVars,
                 lastStatus, callVars, hellos, firstLine, onConnectedCalls, exchange,
                 watched, eventsLeft, iosVars, toolVars>>

\* ----------------------------------------------------- iOS: NodeAppModel
\* NodeAppModel is @MainActor: connectToBridge and disconnectBridge run without
\* interleaving, and the task's body runs between its awaits.  bridge.connect is
\* the Swift BridgeSession's, whose code is not part of these sources: it may
\* call onConnected, and it ends by returning or by throwing.
FreeTasks == {t \in Tasks : taskPc[t] \in {"free", "done"}}
NewTask == CHOOSE t \in FreeTasks : \A k \in FreeTasks : t <= k

\* connectToBridge(endpoint, hello): cancel the old task, set connectedBridgeID,
\* start a new task with attempt = 0.
connectToBridge(e) ==
  /\ iosConnectsLeft > 0
  /\ FreeTasks # {}
  /\ iosConnectsLeft' = iosConnectsLeft - 1
  /\ taskCancelled' = [t \in Tasks |->
                         IF t = NewTask THEN FALSE
                         ELSE IF t = bridgeTask THEN TRUE ELSE taskCancelled[t]]
  /\ connectedBridgeID' = e
  /\ bridgeTask' = NewTask
  /\ taskPc' = [taskPc EXCEPT ![NewTask] = "head"]
  /\ taskAttempt' = [taskAttempt EXCEPT ![NewTask] = 0]
  /\ taskConnected' = [taskConnected EXCEPT ![NewTask] = FALSE]
  /\ taskSlept' = [taskSlept EXCEPT ![NewTask] = 0]
  /\ UNCHANGED <<bridgeStatusText, iosDisconnectsLeft, androidVars, toolVars>>

\* disconnectBridge(): cancel and forget the task, report "Offline".
disconnectBridge ==
  /\ iosDisconnectsLeft > 0
  /\ iosDisconnectsLeft' = iosDisconnectsLeft - 1
  /\ taskCancelled' = [t \in Tasks |-> IF t = bridgeTask THEN TRUE ELSE taskCancelled[t]]
  /\ bridgeTask' = 0
  /\ bridgeStatusText' = "Offline"
  /\ connectedBridgeID' = None
  /\ UNCHANGED <<taskPc, taskAttempt, taskConnected, taskSlept, iosConnectsLeft,
                 androidVars, toolVars>>

\* while !Task.isCancelled: set the status text and call bridge.connect; a
\* cancelled task leaves the loop for its epilogue.
TaskHead(t) ==
  /\ taskPc[t] = "head"
  /\ IF taskCancelled[t]
       THEN /\ taskPc' = [taskPc EXCEPT ![t] = "epilogue"]
            /\ UNCHANGED <<bridgeStatusText, taskConnected>>
       ELSE /\ bridgeStatusText' = IF taskAttempt[t] = 0 THEN "Connecting" ELSE "Reconnecting"
            /\ taskConnected' = [taskConnected EXCEPT ![t] = FALSE]
            /\ taskPc' = [taskPc EXCEPT ![t] = "connect"]
  /\ UNCHANGED <<bridgeTask, connectedBridgeID, taskAttempt, taskCancelled, taskSlept,
                 iosConnectsLeft, iosDisconnectsLeft, androidVars, toolVars>>

\* The onConnected closure, called by bridge.connect: the status is "Connected".
TaskOnConnected(t) ==
  /\ taskPc[t] = "connect"
  /\ ~taskConnected[t]
  /\ taskConnected' = [taskConnected EXCEPT ![t] = TRUE]
  /\ bridgeStatusText' = "Connected"
  /\ UNCHANGED <<bridgeTask, connectedBridgeID, taskPc, taskAttempt, taskCancelled,
                 taskSlept, iosConnectsLeft, iosDisconnectsLeft, androidVars, toolVars>>

\* The end of one attempt of a task that is not cancelled: attempt += 1 and
\* Task.sleep for min(cap, base * pow(1.7, attempt)) seconds.
TaskBackoff(t, base, cap) ==
  /\ taskAttempt[t] < MaxTaskAttempt
  /\ taskAttempt' = [taskAttempt EXCEPT ![t] = @ + 1]
  /\ taskSlept' = [taskSlept EXCEPT ![t] = BackoffMs(base, cap, taskAttempt[t] + 1)]
  /\ taskPc' = [taskPc EXCEPT ![t] = "sleep"]

\* bridge.connect returns (the connection ended): break if cancelled, else
\* sleep min(6.0, 0.35 * pow(1.7, attempt)).
TaskReturn(t) ==
  /\ taskPc[t] = "connect"
  /\ IF taskCancelled[t]
       THEN /\ taskPc' = [taskPc EXCEPT ![t] = "epilogue"]
            /\ UNCHANGED <<taskAttempt, taskSlept>>
       ELSE TaskBackoff(t, 350, 6000)
  /\ UNCHANGED <<bridgeTask, bridgeStatusText, connectedBridgeID, taskCancelled,
                 taskConnected, iosConnectsLeft, iosDisconnectsLeft, androidVars, toolVars>>

\* bridge.connect throws: break if cancelled, else report "Bridge error: ..."
\* and sleep min(8.0, 0.5 * pow(1.7, attempt)).
TaskThrow(t) ==
  /\ taskPc[t] = "connect"
  /\ IF taskCancelled[t]
       THEN /\ taskPc' = [taskPc EXCEPT ![t] = "epilogue"]
            /\ UNCHANGED <<taskAttempt, taskSlept, bridgeStatusText>>
       ELSE /\ TaskBackoff(t, 500, 8000)
            /\ bridgeStatusText' = "Bridge error"
  /\ UNCHANGED <<bridgeTask, connectedBridgeID, taskCancelled, taskConnected,
                 iosConnectsLeft, iosDisconnectsLeft, androidVars, toolVars>>

\* try? await Task.sleep(...) is over, by time or by cancellation.
TaskWake(t) ==
  /\ taskPc[t] = "sleep"
  /\ taskPc' = [taskPc EXCEPT ![t] = "head"]
  /\ UNCHANGED <<bridgeTask, bridgeStatusText, connectedBridgeID, taskAttempt,
                 taskCancelled, taskConnected, taskSlept, iosConnectsLeft,
                 iosDisconnectsLeft, androidVars, toolVars>>

\* After the loop: bridgeStatusText = "Offline"; connectedBridgeID = nil.
TaskEpilogue(t) ==
  /\ taskPc[t] = "epilogue"
  /\ bridgeStatusText' = "Offline"
  /\ connectedBridgeID' = None
  /\ taskPc' = [taskPc EXCEPT ![t] = "done"]
  /\ UNCHANGED <<bridgeTask, taskAttempt, taskCancelled, taskConnected, taskSlept,
                 iosConnectsLeft, iosDisconnectsLeft, androidVars, toolVars>>

\* ------------------------------------------------------------------ spec
\* The session without request() calls.
Next ==
  \/ \E e \in EndpointNames : connect(e)
  \/ disconnect
  \/ DisconnectStart
  \/ \E j \in Loops : DisconnectJoined(j)
  \/ \E j \in Loops : Top(j)
  \/ \E j \in Loops : Delay(j)
  \/ \E j \in Loops : DialOk(j)
  \/ \E j \in Loops : DialFail(j)
  \/ \E j \in Loops : Hello(j)
  \/ \E j \in Loops : Handshake(j)
  \/ \E j \in Loops : ReadEof(j)
  \/ \E j \in Loops : ReadError(j)
  \/ \E j \in Loops : ReadLine(j)
  \/ \E j \in Loops : Finally1(j)
  \/ \E j \in Loops : Finally2(j)

\* The session with request() calls.
RequestInit == InitSession(ReqConnectCalls, ReqDisconnectCalls, FALSE) /\ InitApp(0, 0) /\ InitTools("")

RequestNext ==
  \/ Next
  \/ \E r \in ReqIds : request(r)
  \/ \E r \in ReqIds : requestSend(r)

\* What runs without waiting for the gateway or the caller: coroutines that are
\* ready to run do run, delay() ends, Socket.connect ends (it has a timeout of
\* 8 s), and readLine() on a socket closed under it throws.  Nothing makes the
\* gateway send a line or close the stream, and nothing makes the caller call.
Fairness ==
  /\ WF_vars(DisconnectStart)
  /\ \A j \in Loops :
       /\ WF_vars(DisconnectJoined(j))
       /\ WF_vars(Top(j))
       /\ WF_vars(Delay(j))
       /\ WF_vars(DialOk(j) \/ DialFail(j))
       /\ WF_vars(Hello(j))
       /\ WF_vars(ReadError(j) /\ ~sockOpen[conn[j]])
       /\ WF_vars(Finally1(j))
       /\ WF_vars(Finally2(j))
  /\ \A r \in ReqIds : WF_vars(requestSend(r))

Spec == Init /\ [][Next]_vars
FairSpec == Init /\ [][Next]_vars /\ Fairness
RequestSpec == RequestInit /\ [][RequestNext]_vars
\* The session with request() and sendEvent() calls.
EventSpec ==
  /\ InitSession(WireConnectCalls, WireDisconnectCalls, FALSE)
  /\ InitApp(0, 0)
  /\ InitTools("")
  /\ [][RequestNext \/ sendEvent]_vars

FairRequestSpec == RequestInit /\ [][RequestNext]_vars /\ Fairness

\* The two supervisors: a behaviour is one of the Android session (as in Spec)
\* or one of the iOS app model.
AppNext ==
  \/ \E e \in EndpointNames : connectToBridge(e)
  \/ disconnectBridge
  \/ \E t \in Tasks : TaskHead(t)
  \/ \E t \in Tasks : TaskOnConnected(t)
  \/ \E t \in Tasks : TaskReturn(t)
  \/ \E t \in Tasks : TaskThrow(t)
  \/ \E t \in Tasks : TaskWake(t)
  \/ \E t \in Tasks : TaskEpilogue(t)

SupervisorInit ==
  \/ InitSession(MaxConnectCalls, MaxDisconnectCalls, FALSE) /\ InitApp(0, 0) /\ InitTools("")
  \/ InitSession(0, 0, FALSE) /\ InitApp(AppConnectCalls, AppDisconnectCalls) /\ InitTools("")

SupervisorNext == Next \/ AppNext

\* A task that is ready to run does run, and Task.sleep ends.
AppFairness ==
  \A t \in Tasks :
    WF_vars(TaskHead(t)) /\ WF_vars(TaskWake(t)) /\ WF_vars(TaskEpilogue(t))

SupervisorSpec == SupervisorInit /\ [][SupervisorNext]_vars
FairSupervisorSpec ==
  SupervisorInit /\ [][SupervisorNext]_vars /\ Fairness /\ AppFairness

\* normalizeCanvasHostUrl by itself: one call, on any advertised text and any
\* endpoint.
CanvasInit ==
  /\ InitSession(0, 0, FALSE)
  /\ InitApp(0, 0)
  /\ canvasPc = "call"
  /\ rawArg \in AdvertisedUrls
  /\ endpointArg \in CanvasEndpoints
  /\ normalized = NullUrl
  /\ InitTools("canvas")

Normalize ==
  /\ canvasPc = "call"
  /\ canvasPc' = "done"
  /\ normalized' = normalizeCanvasHostUrl(rawArg, endpointArg)
  /\ UNCHANGED <<rawArg, endpointArg, androidVars, iosVars, dispatchVars, writerVars, ipcVars,
                 readiness, cliSync, invoking, ipcSend>>

CanvasNext == Normalize

CanvasSpec == CanvasInit /\ [][CanvasNext]_vars

\* handleInvoke by itself: one call, on any request in any situation.
DispatchInit ==
  /\ InitSession(0, 0, FALSE)
  /\ InitApp(0, 0)
  /\ InitTools("dispatch")
  /\ invokePc = "call"
  /\ invokeArg \in [platform : {"ios", "macos"}, req : InvokeRequests, env : Situations]
  /\ invokeOut = NoInvoke

Dispatch ==
  /\ invokePc = "call"
  /\ invokePc' = "done"
  /\ invokeOut' = handleInvoke(invokeArg.platform, invokeArg.req, invokeArg.env)
  /\ UNCHANGED <<invokeArg, androidVars, iosVars, canvasVars, writerVars, ipcVars,
                 readiness, cliSync, invoking, ipcSend>>

DispatchSpec == DispatchInit /\ [][Dispatch]_vars

\* Connection.sendJson, by steps: the caller builds its frame, takes the lock,
\* writes the JSON text, writes the newline, flushes, and gives the lock back.
\* flush throws on a closed socket and leaves the text in the writer.
sendJson(s) ==
  /\ \/ /\ sendPc[s] = "idle"
        /\ sendsLeft[s] > 0
        /\ \E type \in (CASE s = "sendEvent" -> {"event"}
                          [] s = "request" -> {"req"}
                          [] OTHER -> {"pong", "invoke-res"}) :
             sendFrame' = [sendFrame EXCEPT ![s] = [from |-> s, type |-> type, n |-> sendsLeft[s]]]
        /\ sendsLeft' = [sendsLeft EXCEPT ![s] = @ - 1]
        /\ sendPc' = [sendPc EXCEPT ![s] = "lock"]
        /\ UNCHANGED <<writeLock, writer, wire>>
     \/ /\ sendPc[s] = "lock"
        /\ tryLock(writeLock)
        /\ writeLock' = s
        /\ sendPc' = [sendPc EXCEPT ![s] = "json"]
        /\ UNCHANGED <<sendFrame, sendsLeft, writer, wire>>
     \/ /\ sendPc[s] = "json"
        /\ writer' = Append(writer, [frame |-> sendFrame[s], part |-> "json"])
        /\ sendPc' = [sendPc EXCEPT ![s] = "newline"]
        /\ UNCHANGED <<writeLock, sendFrame, sendsLeft, wire>>
     \/ /\ sendPc[s] = "newline"
        /\ writer' = Append(writer, [frame |-> sendFrame[s], part |-> "newline"])
        /\ sendPc' = [sendPc EXCEPT ![s] = "flush"]
        /\ UNCHANGED <<writeLock, sendFrame, sendsLeft, wire>>
     \/ /\ sendPc[s] = "flush"
        /\ IF socketOpen
             THEN wire' = wire \o writer /\ writer' = <<>>
             ELSE UNCHANGED <<wire, writer>>
        /\ writeLock' = NoOwner
        /\ sendPc' = [sendPc EXCEPT ![s] = "idle"]
        /\ UNCHANGED <<sendFrame, sendsLeft>>
  /\ UNCHANGED <<socketOpen, androidVars, iosVars, canvasVars, dispatchVars, ipcVars,
                 readiness, cliSync, invoking, ipcSend>>

\* Connection.closeQuietly, from the read loop's finally.
closeQuietly ==
  /\ socketOpen
  /\ sendPc["readLoop"] = "idle"
  /\ socketOpen' = FALSE
  /\ UNCHANGED <<writeLock, sendPc, sendFrame, sendsLeft, writer, wire,
                 androidVars, iosVars, canvasVars, dispatchVars, ipcVars,
                 readiness, cliSync, invoking, ipcSend>>

\* One connection and the callers of its sendJson.
WriterInit ==
  /\ InitSession(0, 0, FALSE)
  /\ InitApp(0, 0)
  /\ InitTools("writer")
  /\ InitWriter(MaxFrames)

WriterSpec == WriterInit /\ [][closeQuietly \/ \E s \in Senders : sendJson(s)]_vars

\* A loop guard that never retries.
neverRetry(poll, now, deadline) == FALSE

\* isA2UIReady's `guard poll, Date() < deadline`.
mayRetry(poll, now, deadline) == poll /\ now < deadline

\* MacNodeRuntime.isA2UIReady(poll:), by steps.  Time is counted in sleeps of
\* 120 ms, so the deadline of 6.0 s is 50 away; a probe returns "true",
\* returns something else or throws, and takes less than a sleep or about
\* one; a sleep lasts one or two.
isA2UIReady ==
  /\ \/ /\ readiness.pc = "call"
        /\ readiness' = [readiness EXCEPT
             !.pc = "probe",
             !.deadline = IF readiness.poll THEN readiness.now + 50 ELSE readiness.now]
     \/ /\ readiness.pc = "probe"
        /\ \E outcome \in {"true", "other", "throws"}, took \in {0, 1} :
             readiness' = [readiness EXCEPT
               !.pc = IF outcome = "true" THEN "done" ELSE "guard",
               !.result = (outcome = "true"),
               !.now = @ + took,
               !.probes = @ + 1,
               !.thrown = @ \/ outcome = "throws",
               !.last = outcome]
     \/ /\ readiness.pc = "guard"
        /\ readiness' = [readiness EXCEPT
             !.pc = IF mayRetry(readiness.poll, readiness.now, readiness.deadline)
                      THEN "sleep" ELSE "done"]
     \/ /\ readiness.pc = "sleep"
        /\ \E took \in {1, 2} :
             readiness' = [readiness EXCEPT !.pc = "probe", !.now = @ + took]
  /\ UNCHANGED <<androidVars, iosVars, canvasVars, dispatchVars, writerVars, ipcVars,
                 cliSync, invoking, ipcSend>>

\* One call of isA2UIReady, polling or not.  The call runs on: it is not
\* suspended for ever (CanvasManager.eval returns or throws, a sleep ends).
ReadySpec ==
  /\ InitSession(0, 0, FALSE)
  /\ InitApp(0, 0)
  /\ InitTools("readiness")
  /\ readiness \in [pc : {"call"}, poll : BOOLEAN, now : {0}, deadline : {0}, probes : {0},
                     thrown : {FALSE}, last : {""}, result : {FALSE}]
  /\ [][isA2UIReady]_vars
  /\ WF_vars(isA2UIReady)

\* A sync that writes nothing.
syncNothing(existing, creds, now) == [profile |-> existing, returned |-> FALSE]

\* syncClaudeCliCredentials(store, creds, now): what it leaves in
\* store.profiles[CLAUDE_CLI_PROFILE_ID] and what it returns.  A credential is
\* [type, provider, secret (access or token), refresh, expires, email]; type
\* "none" is no profile, "" an absent field.
syncClaudeCliCredentials(existing, creds, now) ==
  LET cred == [type |-> creds.type, provider |-> "anthropic", secret |-> creds.secret,
               refresh |-> creds.refresh, expires |-> creds.expires, email |-> ""]
      same == existing.type = creds.type /\ existing.type # "none"
      isEqual == same /\ existing = cred
      newer == \/ ~same
               \/ existing.provider # "anthropic"
               \/ existing.expires <= now
               \/ (creds.expires > now /\ creds.expires > existing.expires)
      shouldUpdate ==
        IF creds.type = "oauth"
          THEN newer \/ existing.type = "token"
          ELSE newer /\ existing.type # "oauth"
  IN  IF shouldUpdate /\ ~isEqual
        THEN [profile |-> cred, returned |-> TRUE]
        ELSE [profile |-> existing, returned |-> FALSE]

\* syncExternalCliCredentials(store), its Claude CLI part, at a time not
\* before the last one: the CLI is read when the stored profile is missing,
\* not anthropic's, a token, or not fresh (near is
\* EXTERNAL_CLI_NEAR_EXPIRY_MS), and offers nothing (type "none"), an oauth
\* credential or a token.
syncExternalCliCredentials ==
  /\ cliSync.pc = "run"
  /\ cliSync.calls < MaxSyncs
  /\ \E now \in cliSync.now..2, near \in {0, 1},
        creds \in [type : {"none", "oauth", "token"}, secret : {"a", "b"}, refresh : {"", "r"},
                   expires : 0..2] :
       LET existing == cliSync.store
           fresh == existing.type \in {"oauth", "token"} /\ existing.expires > now + near
           shouldSyncClaude == \/ existing.type = "none"
                               \/ existing.provider # "anthropic"
                               \/ existing.type = "token"
                               \/ ~fresh
           out == IF shouldSyncClaude /\ creds.type # "none"
                    THEN syncClaudeCliCredentials(existing, creds, now)
                    ELSE [profile |-> existing, returned |-> FALSE]
       IN /\ creds.type = "none" => (creds.secret = "a" /\ creds.refresh = "" /\ creds.expires = 0)
          /\ (creds.refresh = "r") = (creds.type = "oauth")
          /\ cliSync' = [pc |-> "run", store |-> out.profile, now |-> now,
                          calls |-> cliSync.calls + 1, before |-> existing,
                          read |-> shouldSyncClaude, creds |-> creds, returned |-> out.returned]
  /\ UNCHANGED <<androidVars, iosVars, canvasVars, dispatchVars, writerVars, ipcVars,
                 readiness, invoking, ipcSend>>

\* A store with any Claude CLI profile, or none, synced a few times.
SyncSpec ==
  /\ InitSession(0, 0, FALSE)
  /\ InitApp(0, 0)
  /\ InitTools("cliSync")
  /\ \E stored \in [type : {"none", "oauth", "token", "api_key"}, provider : {"", "anthropic", "other"},
                     secret : {"", "a", "b"}, refresh : {"", "r"}, expires : 0..2,
                     email : {"", "e"}] :
       /\ IF stored.type = "none"
            THEN stored = [type |-> "none", provider |-> "", secret |-> "", refresh |-> "",
                           expires |-> 0, email |-> ""]
            ELSE stored.provider # "" /\ stored.secret # ""
       /\ (stored.refresh = "r") = (stored.type = "oauth")
       /\ cliSync = [pc |-> "run", store |-> stored, now |-> 0, calls |-> 0, before |-> stored,
                     read |-> FALSE,
                     creds |-> [type |-> "none", secret |-> "a", refresh |-> "", expires |-> 0],
                     returned |-> FALSE]
  /\ [][syncExternalCliCredentials]_vars

\* The gateway's side of an established connection: it sends one invoke, up
\* to MaxPings pings, and the res of a req it has received.  What it sent and
\* the loop has not read yet is invoking.inbox.
GatewaySends ==
  /\ invoking.pc # "idle"
  /\ \/ /\ ~invoking.invokeSent
        /\ invoking' = [invoking EXCEPT !.invokeSent = TRUE,
                                         !.inbox = Append(@, [type |-> "invoke", id |-> ""])]
     \/ /\ invoking.pings < MaxPings
        /\ invoking' = [invoking EXCEPT !.pings = @ + 1,
                                         !.inbox = Append(@, [type |-> "ping", id |-> ""])]
     \/ \E who \in invoking.sent \ invoking.answered :
          invoking' = [invoking EXCEPT !.answered = @ \cup {who},
                                       !.inbox = Append(@, [type |-> "res", id |-> who])]
  /\ UNCHANGED <<androidVars, iosVars, canvasVars, dispatchVars, writerVars, ipcVars,
                 readiness, cliSync, ipcSend>>

\* One turn of connectOnce's read loop, which is the coroutine that runs
\* onInvoke: it reads the next line only when it is not inside a handler.
\* ping: pong; res: pending.remove(id)?.complete(..); invoke: onInvoke is
\* entered.
ReadTurn ==
  /\ invoking.pc = "read"
  /\ invoking.inbox # <<>>
  /\ LET frame == Head(invoking.inbox)
     IN invoking' = [invoking EXCEPT
          !.inbox = Tail(@),
          !.pc = IF frame.type = "invoke" THEN "handler" ELSE @,
          !.handler = IF frame.type = "invoke" THEN "running" ELSE @,
          !.pongs = IF frame.type = "ping" THEN @ + 1 ELSE @,
          !.pending = IF frame.type = "res" THEN @ \ {frame.id} ELSE @,
          !.completed = IF frame.type = "res" THEN @ \cup ({frame.id} \cap invoking.pending) ELSE @]
  /\ UNCHANGED <<androidVars, iosVars, canvasVars, dispatchVars, writerVars, ipcVars,
                 readiness, cliSync, ipcSend>>

\* While onInvoke runs: the handler, or another coroutine, calls request()
\* (the waiter is registered and the req written; the handler then awaits its
\* own); the handler's await ends once its waiter is completed; a handler
\* that is not waiting returns, the invoke-res is written and the loop goes
\* back to reading.
WhileInvoking ==
  /\ invoking.pc = "handler"
  /\ \/ \E who \in {"handler", "caller"} \ invoking.sent :
          /\ who = "handler" => invoking.handler = "running"
          /\ invoking' = [invoking EXCEPT
               !.pending = @ \cup {who},
               !.sent = @ \cup {who},
               !.handler = IF who = "handler" THEN "awaiting" ELSE @]
     \/ /\ invoking.handler = "awaiting"
        /\ "handler" \in invoking.completed
        /\ invoking' = [invoking EXCEPT !.handler = "running"]
     \/ /\ invoking.handler = "running"
        /\ invoking' = [invoking EXCEPT !.handler = "returned", !.pc = "read"]
  /\ UNCHANGED <<androidVars, iosVars, canvasVars, dispatchVars, writerVars, ipcVars,
                 readiness, cliSync, ipcSend>>

\* The response the data handler takes from the buffer: buffer.split("\n"),
\* then the first piece that JSON.parse accepts, the piece after the last
\* newline included.  The text is a sequence of tokens; "a" followed by "b"
\* is one JSON value, "c" is another, "nl" is the newline.
firstParsable(buffer) ==
  LET parse(line) == IF line = <<"a", "b">> THEN "A"
                     ELSE IF line = <<"c">> THEN "C"
                     ELSE "none"
      RECURSIVE scan(_, _)
      scan(rest, line) ==
        IF rest = <<>> THEN parse(line)
        ELSE IF Head(rest) = "nl"
             THEN IF parse(line) # "none" THEN parse(line) ELSE scan(Tail(rest), <<>>)
             ELSE scan(Tail(rest), Append(line, Head(rest)))
  IN scan(buffer, <<>>)

alwaysUnsettled(s) == TRUE

\* if (!resolved)
unsettled(s) == ~s.resolved

\* sendViaIpc and the callbacks it registers, one step per event: the call
\* itself, the socket's connect, data, error and close events and the
\* 30-second timer.  settled counts the calls of resolve, first and firstLine
\* remember the first event that can settle the promise, late counts such
\* events after it.
sendViaIpc(ev) ==
  /\ LET s == ipcSend
         settle(t, value) ==
           [t EXCEPT !.resolved = TRUE, !.settled = @ + 1, !.outcome = value]
         noted(t, kind, line) ==
           IF t.first = "none"
           THEN [t EXCEPT !.first = kind, !.firstLine = line, !.events = @ + 1]
           ELSE [t EXCEPT !.late = @ + 1, !.events = @ + 1]
     IN \/ /\ ev = "call"
           /\ s.pc = "idle"
           /\ \E running \in BOOLEAN :
                ipcSend' = IF ~running
                           THEN [s EXCEPT !.pc = "returned", !.settled = 1, !.outcome = "null",
                                          !.first = "absent"]
                           ELSE [s EXCEPT !.pc = "open", !.timer = "armed"]
        \/ /\ ev = "connect"
           /\ s.pc = "open"
           /\ ~s.written
           /\ ipcSend' = [s EXCEPT !.written = TRUE]
        \/ /\ ev = "data"
           /\ s.pc = "open"
           /\ s.events < MaxIpcEvents
           /\ \E chunk \in {<<"a">>, <<"b", "nl">>, <<"c", "nl">>, <<"nl">>, <<"a", "b">>} :
                LET buffer == s.buffer \o chunk
                    response == firstParsable(buffer)
                    t == [s EXCEPT !.buffer = buffer]
                IN ipcSend' =
                     IF response = "none" THEN [t EXCEPT !.events = @ + 1]
                     ELSE IF unsettled(s)
                          THEN [settle(noted(t, "data", response), response) EXCEPT !.timer = "cleared"]
                          ELSE noted(t, "data", response)
        \/ /\ ev = "error"
           /\ s.pc = "open"
           /\ s.events < MaxIpcEvents
           /\ ipcSend' = IF unsettled(s)
                          THEN [settle(noted(s, "error", "none"), "null") EXCEPT !.timer = "cleared"]
                          ELSE noted(s, "error", "none")
        \/ /\ ev = "close"
           /\ s.pc = "open"
           /\ s.events < MaxIpcEvents
           /\ ipcSend' = IF unsettled(s)
                          THEN [settle(noted(s, "close", "none"), "Connection closed")
                                  EXCEPT !.timer = "cleared"]
                          ELSE noted(s, "close", "none")
        \/ /\ ev = "timeout"
           /\ s.timer = "armed"
           /\ ipcSend' = IF unsettled(s)
                          THEN [settle(noted(s, "timeout", "none"), "IPC timeout")
                                  EXCEPT !.timer = "fired"]
                          ELSE [noted(s, "timeout", "none") EXCEPT !.timer = "fired"]
  /\ UNCHANGED <<androidVars, iosVars, canvasVars, dispatchVars, writerVars, ipcVars,
                 readiness, cliSync, invoking>>

\* One call of sendViaIpc with the socket's events in every order; a timer
\* that is armed and not cleared fires.
IpcSendSpec ==
  /\ InitSession(0, 0, FALSE)
  /\ InitApp(0, 0)
  /\ InitTools("ipcSend")
  /\ ipcSend = [pc |-> "idle", resolved |-> FALSE, settled |-> 0, outcome |-> "unset",
                timer |-> "none", written |-> FALSE, buffer |-> <<>>, events |-> 0,
                first |-> "none", firstLine |-> "none", late |-> 0]
  /\ [][\E ev \in {"call", "connect", "data", "error", "close", "timeout"} : sendViaIpc(ev)]_vars
  /\ WF_vars(sendViaIpc("timeout"))

\* An established connection on which the gateway invokes a command.  The
\* coroutines run on: the read loop reads a line that is there, and a handler
\* that can go on does.
HandlerSpec ==
  /\ InitSession(0, 0, FALSE)
  /\ InitApp(0, 0)
  /\ InitTools("invoking")
  /\ invoking = [pc |-> "read", inbox |-> <<>>, invokeSent |-> FALSE, handler |-> "idle",
                 pings |-> 0, pongs |-> 0, pending |-> {}, sent |-> {}, answered |-> {},
                 completed |-> {}]
  /\ [][GatewaySends \/ ReadTurn \/ WhileInvoking]_vars
  /\ WF_vars(ReadTurn)
  /\ WF_vars(WhileInvoking)

\* startIpcServer(sendHandler). `bound` is whether server.listen could bind the
\* socket path (it reports a failure later, on the server's error event).
startIpcServer(bound) ==
  LET made == ensureSocketDir(ipcDir, isRoot)
      stale == unlinkSync(ipcSock, made.dir, isRoot)
      threw == \/ made.threw
               \/ assertSafeSocketPath(ipcSock)
               \/ stale.code \notin {"none", "ENOENT"}
  IN /\ Len(ipcLog) < MaxIpcCalls
     /\ ipcDir' = made.dir
     /\ IF threw
          THEN /\ ipcSock' = IF made.threw \/ assertSafeSocketPath(ipcSock)
                                THEN ipcSock ELSE stale.path
               /\ server' = server
               /\ ipcLog' = Append(ipcLog, "start threw")
          ELSE /\ ipcSock' = IF bound
                                THEN [kind |-> "socket", owner |-> "me", mode |-> "600"]
                                ELSE stale.path
               /\ server' = [listening |-> bound, null |-> FALSE]
               /\ ipcLog' = Append(ipcLog, IF bound THEN "start ok" ELSE "start unbound")
     /\ UNCHANGED <<isRoot, androidVars, iosVars, canvasVars, dispatchVars, writerVars,
                    readiness, cliSync, invoking, ipcSend>>

\* stopIpcServer(). `closeRemoves` is whether closing a listening server
\* removes its socket file by itself.
stopIpcServer(closeRemoves) ==
  LET closed == IF ~server.null /\ server.listening /\ closeRemoves /\ ipcSock.kind = "socket"
                  THEN Missing ELSE ipcSock
  IN /\ Len(ipcLog) < MaxIpcCalls
     /\ server' = NoServer
     /\ ipcSock' = unlinkSync(closed, ipcDir, isRoot).path
     /\ ipcLog' = Append(ipcLog, "stop")
     /\ UNCHANGED <<ipcDir, isRoot, androidVars, iosVars, canvasVars, dispatchVars, writerVars,
                    readiness, cliSync, invoking, ipcSend>>

\* The IPC module in any file system.
IpcInit ==
  /\ InitSession(0, 0, FALSE)
  /\ InitApp(0, 0)
  /\ InitTools("ipc")
  /\ InitIpc([kind : {"missing", "dir", "symlink", "file", "socket"},
              owner : {"me", "other"}, mode : {"600", "700", "755", "777"}],
             BOOLEAN)

IpcSpec ==
  IpcInit /\ [][\E b \in BOOLEAN : startIpcServer(b) \/ stopIpcServer(b)]_vars

\* The session without request() calls, its read loop watched.
WireInit == InitSession(WireConnectCalls, WireDisconnectCalls, TRUE) /\ InitApp(0, 0) /\ InitTools("")
WireSpec == WireInit /\ [][Next]_vars

\* ================================================================ claims
Running(j) == loopPc[j] \notin {"free", "done"}
Working(j) == Running(j) /\ ~cancelled[j]
Connected(j) == loopPc[j] = "read"
DisconnectsInFlight == dLaunched > 0 \/ \E j \in Loops : dJoin[j] > 0
OpenSockets == {c \in Conns : sockOpen[c]}
\* The finally block of the connectOnce that made connection c has run.
TornDown(c) == c \in 1..nConn /\ \A j \in Loops : conn[j] # c

\* C1: no slot stays in the pending table once the connection it was sent on
\* has been torn down, and a caller that awaits has its slot in the table until
\* it is completed or cancelled (none is dropped unresolved).
C1_PendingResolvedOnceNoneLeft ==
  \A r \in ReqIds :
    /\ r \in pending => ~TornDown(reqConn[r])
    /\ reqPc[r] = "await" /\ deferred[r] = "fresh" => r \in pending

\* C2: after disconnect() is called on a connected session with K requests
\* awaiting (and until the caller's next connect()), with no help from the
\* gateway, each of the K callers is resumed and the pending table is empty.
C2_DisconnectFailsAllPending ==
  atDisconnect.connected
    ~> (\/ ~atDisconnect.connected
        \/ /\ pending = {}
           /\ \A r \in atDisconnect.waiting : deferred[r] # "fresh")

\* C3: canvasHostUrl is non-null only while a connection whose handshake was
\* answered with hello-ok is held (up to the end of its teardown).
C3_CanvasUrlOnlyWhileConnected ==
  canvasHostUrl # NullUrl =>
    \E j \in Loops : loopPc[j] \in {"read", "fin1", "fin2"}

\* C4: at most one runLoop coroutine is running and at most one socket is open.
C4_OneLoopOneSocket ==
  /\ Cardinality({j \in Loops : Running(j)}) <= 1
  /\ Cardinality(OpenSockets) <= 1

\* C5: when the last call was connect() and the coroutines of earlier
\* disconnect() calls have run, a supervisor loop is running for the session.
C5_LastConnectWins ==
  desired # None /\ ~DisconnectsInFlight => \E j \in Loops : Working(j)

\* C6: connect(E2) while the session's loop is handshaking with or connected to
\* E1 leads to a dial of E2 (unless the caller calls connect or disconnect
\* again), whether or not the gateway at E1 ever sends or closes.
C6_ConnectSupersedes ==
  (/\ desired = "E2"
   /\ ~DisconnectsInFlight
   /\ \E j \in Loops : job = j /\ Working(j) /\ loopPc[j] \in {"hs", "read"} /\ target[j] = "E1")
    ~> (\/ desired # "E2"
        \/ DisconnectsInFlight
        \/ \E j \in Loops : Running(j) /\ target[j] = "E2")

\* C7: after disconnect() with no later connect(), the session closes its
\* socket, stops its loop and reports "Offline" last, whether or not the gateway
\* ever sends or closes.
C7_DisconnectEndsOffline ==
  (desired = None /\ DisconnectsInFlight)
    ~> (desired # None
          \/ (/\ lastStatus = "Offline"
              /\ OpenSockets = {}
              /\ \A j \in Loops : ~Running(j)))

\* C8: two or more disconnect() calls in a row end, once their coroutines have
\* run, with no connection, an empty pending table and a null canvasHostUrl, and
\* a connect() right after them leaves exactly one working supervisor loop.
C8_DisconnectIdempotent ==
  ~DisconnectsInFlight =>
    /\ callHistory = "dd" =>
         currentConnection = 0 /\ pending = {} /\ canvasHostUrl = NullUrl
    /\ callHistory = "ddc" => Cardinality({j \in Loops : Working(j)}) = 1

\* C9: a line that is not JSON never makes the read loop leave the connection.
C9_BadLineKeepsConnection ==
  \A j \in Loops : exitKind[j] # "line unparsable"

\* C10: an event frame without an event name never makes connectOnce return.
C10_IncompleteFrameKeepsConnection ==
  \A j \in Loops : exitKind[j] # "event without name"

\* The first line read at the handshake was not hello-ok (an error frame, another
\* frame, an unparsable line, end of stream or an I/O error).
HandshakeFailed(j) == firstLine[j] \notin {"", "hello-ok"}

\* C11: on every connection the first frame written is hello and exactly one
\* hello is written; onConnected is invoked at most once per connection and the
\* read loop (the only place that dispatches frames) is entered only after a
\* first line hello-ok; after any other first line, or none, the attempt ends
\* with the socket closed, in the backoff sleep, with onConnected not invoked.
C11_HelloThenHelloOk ==
  /\ [](\A j \in Loops :
          /\ loopPc[j] \in {"hs", "read"} =>
               firstSent[conn[j]] = "hello" /\ hellos[conn[j]] = 1
          /\ onConnectedCalls[j] <= 1
          /\ onConnectedCalls[j] = 1 \/ loopPc[j] = "read" => firstLine[j] = "hello-ok"
          /\ HandshakeFailed(j) =>
               loopPc[j] \in {"fin1", "fin2"} /\ onConnectedCalls[j] = 0)
  /\ [][\A j \in Loops :
          HandshakeFailed(j) /\ loopPc[j] = "fin2" /\ loopPc'[j] # "fin2" =>
            /\ loopPc'[j] = "backoff"
            /\ attempt'[j] = attempt[j] + 1
            /\ ~sockOpen'[conn[j]]]_vars

\* C12: a deferred is completed only by a res frame carrying its own id, while
\* its slot is in the table, and that res changes no other request; so a res
\* whose id is not pending changes nothing, in whatever order the res arrive.
C12_ResponsesMatchedById ==
  /\ [](\A r \in ReqIds :
          /\ result[r] \in {0, r}
          /\ deferred[r] = "completed" <=> result[r] = r)
  /\ [][\A r \in ReqIds :
          deferred[r] # "completed" /\ deferred'[r] = "completed" =>
            /\ r \in pending /\ deferred[r] = "fresh"
            /\ pending' = pending \ {r}
            /\ \A q \in ReqIds \ {r} : deferred'[q] = deferred[q] /\ result'[q] = result[q]]_vars

\* C12 witness: the later request was answered first, with its own response,
\* while the earlier one still awaits.
C12_AnsweredOutOfOrder ==
  /\ deferred[2] = "completed" /\ result[2] = 2
  /\ reqPc[1] = "await" /\ 1 \in pending /\ deferred[1] = "fresh"

\* The turn of loop j's read loop on an invoke frame that has an id.
InvokeTurn(j) == exchange[j].line.type = "invoke" /\ exchange[j].line.id # 0
\* The turn's write threw: nothing was written and the loop left on the IOException.
WriteFailed(j) == exchange[j].sent = <<>> /\ exitKind[j] = "io"

\* C13: the turn of the read loop on an invoke frame with an id calls onInvoke
\* and writes exactly one frame, an invoke-res on the same connection with the
\* same id (unless the write itself throws); when onInvoke threw, the invoke-res
\* has ok = false and an error with a code and a message, and the read loop
\* goes on with the same connection.
C13_InvokeAnsweredOnce ==
  /\ [](\A j \in Loops :
          InvokeTurn(j) =>
            /\ exchange[j].invoked
            /\ \/ WriteFailed(j)
               \/ /\ Len(exchange[j].sent) = 1
                  /\ exchange[j].sent[1].type = "invoke-res"
                  /\ exchange[j].sent[1].conn = exchange[j].conn
                  /\ exchange[j].sent[1].id = exchange[j].line.id
                  /\ exchange[j].outcome.thrown =>
                       /\ ~exchange[j].sent[1].ok
                       /\ Len(exchange[j].sent[1].error) = 2
                       /\ exchange[j].sent[1].error[1] # <<>>
                       /\ exchange[j].sent[1].error[2] # <<>>)
  /\ [][\A j \in Loops :
          exchange'[j] # exchange[j] /\ exchange'[j].invoked /\ exchange'[j].sent # <<>> =>
            loopPc'[j] = "read" /\ conn'[j] = conn[j] /\ sockOpen'[conn[j]]]_vars

\* C13 witness: onInvoke threw, the invoke-res with ok = false was written, and
\* the loop is still reading.
C13_ThrowAnswered ==
  \E j \in Loops :
    /\ InvokeTurn(j) /\ exchange[j].outcome.thrown
    /\ Len(exchange[j].sent) = 1 /\ ~exchange[j].sent[1].ok
    /\ exchange[j].sent[1].error[1] # Unavailable
    /\ loopPc[j] = "read"

\* C14: the turn of the read loop on a ping frame writes exactly one frame, a
\* pong on the same connection with the ping's id (the id "" when the ping has
\* none), unless the write itself throws; no other turn writes a pong.
C14_PingAnsweredOnce ==
  \A j \in Loops :
    /\ exchange[j].line.type = "ping" =>
         \/ WriteFailed(j)
         \/ exchange[j].sent =
              <<OutFrame(exchange[j].conn, "pong",
                         IF exchange[j].line.id = 0 THEN EmptyId ELSE exchange[j].line.id,
                         FALSE, <<>>)>>
    /\ \A i \in 1..Len(exchange[j].sent) :
         exchange[j].sent[i].type = "pong" => exchange[j].line.type = "ping"

\* C14 witness: a ping with an id was answered and the loop is still reading.
C14_PongWritten ==
  \E j \in Loops :
    /\ exchange[j].line.type = "ping" /\ exchange[j].line.id = 2
    /\ Len(exchange[j].sent) = 1 /\ exchange[j].sent[1].id = 2
    /\ loopPc[j] = "read"

\* The supervisor has just failed and nobody has cancelled it: runLoop's catch
\* block has run and sleeps.
Failed(j) == loopPc[j] = "backoff" /\ ~cancelled[j]

\* C15: while an endpoint stays desired the supervisor heals itself: a failure
\* is reported by the status callback, and after it a dial to the desired
\* endpoint follows (Android: a loop is at socket.connect again; iOS: the task
\* calls bridge.connect again), unless the endpoint is given up meanwhile.
C15_SelfHealing ==
  /\ \A j \in Loops :
       (Failed(j) /\ desired # None)
         ~> (desired = None \/ \E k \in Loops : loopPc[k] = "dial" /\ target[k] = desired)
  /\ \A t \in Tasks :
       (taskPc[t] = "sleep" /\ ~taskCancelled[t])
         ~> (taskCancelled[t] \/ taskPc[t] = "connect")

\* C16: the delays a supervisor sleeps never exceed the cap (8 s), and each is
\* at least the one it slept before, whether the attempt between them ended
\* with an error or with the end of an established connection; Android runLoop
\* and iOS connectToBridge.
C16_BackoffNonDecreasing ==
  /\ [](\A j \in Loops : slept[j] <= 8000)
  /\ [](\A t \in Tasks : taskSlept[t] <= 8000)
  /\ [][\A j \in Loops : slept'[j] # 0 => slept'[j] >= slept[j]]_vars
  /\ [][\A t \in Tasks : taskSlept'[t] # 0 => taskSlept'[t] >= taskSlept[t]]_vars

\* C17: reaching Connected resets the attempt counter: when a connection that
\* reached Connected (hello-ok read, onConnected called) ends and the
\* supervisor sleeps, it sleeps the delay of a first failure; Android runLoop
\* and iOS connectToBridge.
C17_ConnectedResetsAttempt ==
  /\ [][\A j \in Loops :
          (onConnectedCalls[j] = 1 /\ ~cancelled[j] /\ loopPc[j] = "fin2"
             /\ loopPc'[j] = "backoff")
            => (attempt'[j] = 1 /\ slept'[j] = sleepMs(1))]_vars
  /\ [][\A t \in Tasks :
          (taskConnected[t] /\ taskPc[t] = "connect" /\ taskPc'[t] = "sleep")
            => (taskAttempt'[t] = 1
                  /\ taskSlept'[t] \in {BackoffMs(350, 6000, 1), BackoffMs(500, 8000, 1)})]_vars

\* C18: a connection attempt that ends (socket.connect fails, or connectOnce
\* leaves through its finally block after a failed handshake, EOF or an
\* error) is followed by attempt + 1 and a sleep of
\* min(8000, 350 * 1.7^attempt) ms before the next dial: runLoop never goes
\* back to the head of its loop without sleeping.
C18_BackoffBeforeRedial ==
  [][\A j \in Loops :
       ((loopPc[j] = "fin2" /\ loopPc'[j] # "fin2")
          \/ (loopPc[j] = "dial" /\ loopPc'[j] \notin {"dial", "hello"}))
         => /\ loopPc'[j] = "backoff"
            /\ attempt'[j] = attempt[j] + 1
            /\ slept'[j] = sleepMs(attempt'[j])]_vars

\* C19: when normalizeCanvasHostUrl substitutes a URL for the advertised one
\* (which was empty or had a loopback host), the port of the substituted URL is
\* the endpoint's canvasPort when it has one and 18793 otherwise, whatever port
\* the advertised URL had.
C19_FallbackPort ==
  (canvasPc = "done" /\ normalized # Trim(rawArg))
    => URI(normalized).port =
         IF endpointArg.canvasPort # 0 THEN endpointArg.canvasPort ELSE DefaultCanvasPort

\* C20: given a fallback host, normalizeCanvasHostUrl returns the advertised URL
\* as it is exactly when it is not empty and its host is not a loopback host
\* (localhost, 127.*, ::1, 0.0.0.0, ::; an IPv6 host is written in brackets in
\* a URL); otherwise it returns another URL.
C20_VerbatimIffNotLoopback ==
  LET advertised == Trim(rawArg)
      written == URI(advertised).host
      host == IF written # <<>> /\ written[1] = "[" /\ written[Len(written)] = "]"
                THEN SubSeq(written, 2, Len(written) - 1)
                ELSE written
      fallback == \E f \in {"host", "lanHost", "tailnetDns"} : Trim(endpointArg[f]) # <<>>
  IN  (canvasPc = "done" /\ fallback)
        => (normalized = advertised <=> (advertised # <<>> /\ ~isLoopbackHost(host)))

\* C21: when normalizeCanvasHostUrl substitutes a URL, its host is the
\* endpoint's tailnetDns if that is not empty, else its lanHost if that is not
\* empty, else its host (an IPv6 host in brackets), and its scheme is the
\* advertised URL's scheme, or http when nothing was advertised.
C21_FallbackHostAndScheme ==
  LET advertised == Trim(rawArg)
      chosen ==
        IF Trim(endpointArg.tailnetDns) # <<>> THEN Trim(endpointArg.tailnetDns)
        ELSE IF Trim(endpointArg.lanHost) # <<>> THEN Trim(endpointArg.lanHost)
        ELSE Trim(endpointArg.host)
      written == URI(normalized).host
      host == IF written # <<>> /\ written[1] = "["
                THEN SubSeq(written, 2, Len(written) - 1)
                ELSE written
  IN  (canvasPc = "done" /\ normalized # advertised)
        => /\ host = chosen
           /\ URI(normalized).scheme =
                IF advertised = <<>> THEN <<"h", "t", "t", "p">> ELSE URI(advertised).scheme

\* C21's case: a loopback https URL was advertised to an endpoint that has a
\* LAN host and a tailnet name, and the URL returned names the tailnet host.
C21_TailnetChosen ==
  /\ canvasPc = "done"
  /\ normalized # Trim(rawArg)
  /\ URI(Trim(rawArg)).scheme = <<"h", "t", "t", "p", "s">>
  /\ Trim(endpointArg.lanHost) # <<>>
  /\ Trim(endpointArg.tailnetDns) # <<>>
  /\ URI(normalized).host = Trim(endpointArg.tailnetDns)

\* C22: camera.snap and camera.clip, with the camera disabled, are answered
\* ok = false with error code CAMERA_DISABLED, and neither the camera nor its
\* HUD or flash is used; iOS and macOS.
C22_CameraDisabled ==
  (/\ invokePc = "done"
   /\ invokeArg.req.command \in {"camera.snap", "camera.clip"}
   /\ ~invokeArg.env.cameraEnabled)
    => /\ ~invokeOut.res.ok
       /\ invokeOut.res.error.code = "CAMERA_DISABLED"
       /\ invokeOut.used \cap {"camera", "hud", "flash"} = {}

\* C23: handleInvoke answers every request: the response has the request's id,
\* a response with ok = false has an error with a code and a message, and a
\* response with ok = true has no error.
C23_Total ==
  invokePc = "done"
    => /\ invokeOut.res.id = invokeArg.req.id
       /\ ~invokeOut.res.ok
            => (invokeOut.res.error.code # "" /\ invokeOut.res.error.message # <<>>)
       /\ invokeOut.res.ok => invokeOut.res.error = NoError

\* C23's case: the capability behind a command has thrown and the answer is
\* ok = false with the error.
C23_ThrowAnswered ==
  /\ invokePc = "done"
  /\ invokeArg.env.handler = "throws"
  /\ "camera" \in invokeOut.used
  /\ ~invokeOut.res.ok
  /\ invokeOut.res.error.code = "UNAVAILABLE"

\* C24, as stated: a command that is not in the node's command surface is
\* answered INVALID_REQUEST "unknown command", and no capability is used.
C24_UnknownCommand ==
  (invokePc = "done" /\ invokeArg.req.command \notin Surface(invokeArg.platform))
    => /\ ~invokeOut.res.ok
       /\ invokeOut.res.error =
            ClawdisNodeError("INVALID_REQUEST", <<"INVALID_REQUEST", "unknown command">>)
       /\ invokeOut.used = {}

\* C24, amended: that holds for the unknown commands the gates let through;
\* the gates come first and go by the command's prefix (iOS: canvas., camera.
\* and screen. while backgrounded, camera. with the camera disabled; macOS:
\* canvas. with the canvas disabled), and they use no capability either.
C24_UnknownCommandUngated ==
  LET command == invokeArg.req.command
      env == invokeArg.env
      gated ==
        IF invokeArg.platform = "ios"
          THEN \/ env.isBackgrounded /\ (hasPrefix(command, "canvas.")
                    \/ hasPrefix(command, "camera.") \/ hasPrefix(command, "screen."))
               \/ ~env.cameraEnabled /\ hasPrefix(command, "camera.")
          ELSE ~env.canvasEnabled /\ hasPrefix(command, "canvas.")
  IN  (invokePc = "done" /\ command \notin Surface(invokeArg.platform))
        => /\ ~invokeOut.res.ok
           /\ invokeOut.used = {}
           /\ ~gated => invokeOut.res.error =
                ClawdisNodeError("INVALID_REQUEST", <<"INVALID_REQUEST", "unknown command">>)
           /\ gated => invokeOut.res.error.message[1] \in
                {"NODE_BACKGROUND_UNAVAILABLE", "CAMERA_DISABLED", "CANVAS_DISABLED"}

\* C24's case: an unknown command with a gated prefix, no gate closed, is
\* answered unknown command.
C24_UnknownCanvasCommand ==
  /\ invokePc = "done"
  /\ invokeArg.req.command = "canvas.foo"
  /\ invokeArg.env.canvasEnabled
  /\ ~invokeArg.env.isBackgrounded
  /\ invokeOut.res.error.message = <<"INVALID_REQUEST", "unknown command">>

\* C25: without paramsJSON, or with one that does not decode, the commands
\* with default parameters go on to their capability, and the commands that
\* need parameters are answered ok = false with code INVALID_REQUEST and use
\* no capability (no gate being closed).
C25_MissingParams ==
  LET command == invokeArg.req.command
      env == invokeArg.env
  IN  (/\ invokePc = "done"
       /\ invokeArg.req.paramsJSON \in {"none", "bad"}
       /\ command \in Surface(invokeArg.platform)
       /\ ~env.isBackgrounded /\ env.cameraEnabled /\ env.canvasEnabled)
        => /\ command \in {"canvas.present", "canvas.snapshot", "camera.snap", "camera.clip",
                           "screen.record"}
                => invokeOut.used # {}
           /\ command \in {"canvas.navigate", "canvas.evalJS", "canvas.a2ui.pushJSONL",
                           "system.run", "system.notify"}
                => /\ ~invokeOut.res.ok
                   /\ invokeOut.res.error.code = "INVALID_REQUEST"
                   /\ invokeOut.used = {}

\* C26: an invoke of system.notify whose parameters have a title and a body is
\* answered with the invoke's id and ok = true.
C26_NotifyAnsweredOk ==
  (/\ invokePc = "done"
   /\ invokeArg.req.command = "system.notify"
   /\ invokeArg.req.paramsJSON = "ok")
    => (invokeOut.res.id = invokeArg.req.id /\ invokeOut.res.ok)

\* C27: the frames written to a connection do not interleave: each JSON text
\* is followed at once by its own newline, whole frames only reach the socket,
\* and at most one caller of sendJson is between taking and releasing the lock.
C27_FramesContiguous ==
  LET stream == wire \o writer
      inside == {s \in Senders : sendPc[s] \in {"json", "newline", "flush"}}
  IN /\ Cardinality(inside) <= 1
     /\ \A s \in inside : writeLock = s
     /\ Len(wire) % 2 = 0
     /\ \A i \in 1..Len(stream) :
          IF stream[i].part = "json"
            THEN IF i < Len(stream)
                   THEN stream[i + 1] = [frame |-> stream[i].frame, part |-> "newline"]
                   ELSE \E s \in inside : sendPc[s] = "newline" /\ sendFrame[s] = stream[i].frame
            ELSE i > 1 /\ stream[i - 1] = [frame |-> stream[i].frame, part |-> "json"]

\* C27 (witness): a caller is between its JSON text and its newline while
\* another waits for the lock, and frames of other callers are already on
\* the socket.
C27_ContendedFrame ==
  \E s, t \in Senders :
    /\ s # t
    /\ sendPc[s] = "newline"
    /\ sendPc[t] = "lock"
    /\ \E i \in 1..Len(wire) : wire[i].frame.from \notin {s, t} /\ wire[i].frame.type = "pong"
    /\ \E i \in 1..Len(wire) : wire[i].frame.from = t

\* C28: a call of startIpcServer that finds the IPC directory a symlink, not a
\* directory or owned by another user, or the socket path a symlink or owned
\* by another user, throws, leaves what is at the socket path alone, and
\* leaves the module's server as it was (null in a module that never started
\* one).
C28_RefusesUnsafePath ==
  [][LET unsafe == \/ ipcDir.kind \in {"symlink", "file"}
                   \/ ipcDir.kind = "dir" /\ ipcDir.owner # "me"
                   \/ ipcSock.kind = "symlink"
                   \/ ipcSock.kind # "missing" /\ ipcSock.owner # "me"
         started == /\ Len(ipcLog') = Len(ipcLog) + 1
                    /\ ipcLog'[Len(ipcLog')] # "stop"
     IN (started /\ unsafe) =>
          /\ ipcLog'[Len(ipcLog')] = "start threw"
          /\ ipcSock' = ipcSock
          /\ server' = server
          /\ (ipcLog = <<>> => server'.null)]_vars

\* C28 (witness): the first call of startIpcServer found the directory a
\* symlink and threw; the socket in it is still there and server is null.
C28_SymlinkRefused ==
  /\ ipcLog = <<"start threw">>
  /\ ipcDir.kind = "symlink"
  /\ ipcSock.kind = "socket"
  /\ server.null

C30_NoWaiterWithoutConnection ==
  \A j \in Loops : \A r \in pending :
    (/\ currentConnection = 0
     /\ conn[j] # 0
     /\ onConnectedCalls[j] > 0
     /\ reqConn[r] = conn[j])
      => deferred[r] # "fresh"

C32_A2UIHostErrors ==
  (/\ invokePc = "done"
   /\ invokeArg.req.command \in {"canvas.a2ui.reset", "canvas.a2ui.push", "canvas.a2ui.pushJSONL"}
   /\ invokeArg.req.command = "canvas.a2ui.reset" \/ invokeArg.req.paramsJSON \in {"ok", "blank"}
   /\ ~invokeArg.env.isBackgrounded
   /\ invokeArg.env.canvasEnabled)
    => /\ invokeArg.env.a2ui \in {"no host", "loaded"} =>
            /\ ~invokeOut.res.ok
            /\ invokeOut.res.error.message[1] = "A2UI_HOST_NOT_CONFIGURED"
       /\ invokeArg.env.a2ui = "unreachable" =>
            /\ ~invokeOut.res.ok
            /\ invokeOut.res.error.message[1] = "A2UI_HOST_UNAVAILABLE"
       /\ invokeOut.res.ok => invokeArg.env.a2ui \in {"ready", "loaded"}

\* C34: on macOS system.run with an empty command is answered INVALID_REQUEST,
\* and system.run that needs screen recording without the permission is
\* answered PERMISSION_MISSING; neither runs the shell, and nor does a
\* system.run whose parameters do not decode.
C34_RunPreconditions ==
  (/\ invokePc = "done"
   /\ invokeArg.platform = "macos"
   /\ invokeArg.req.command = "system.run")
    => /\ invokeArg.req.paramsJSON = "blank" =>
            /\ ~invokeOut.res.ok
            /\ invokeOut.res.error.code = "INVALID_REQUEST"
            /\ invokeOut.res.error.message[1] = "INVALID_REQUEST"
            /\ "shell" \notin invokeOut.used
       /\ (invokeArg.req.paramsJSON = "ok" /\ invokeArg.env.handler = "denied") =>
            /\ ~invokeOut.res.ok
            /\ invokeOut.res.error.message[1] = "PERMISSION_MISSING"
            /\ "shell" \notin invokeOut.used
       /\ "shell" \in invokeOut.used =>
            (invokeArg.req.paramsJSON = "ok" /\ invokeArg.env.handler # "denied")

\* C34 (witness): a system.run that needs screen recording was refused for
\* the missing permission.
C34_PermissionMissing ==
  /\ invokePc = "done"
  /\ invokeArg.platform = "macos"
  /\ invokeArg.req.command = "system.run"
  /\ invokeArg.req.paramsJSON = "ok"
  /\ invokeArg.env.handler = "denied"
  /\ invokeOut.res.error.message[1] = "PERMISSION_MISSING"
  /\ invokeOut.used = {}

\* C33: every call of isA2UIReady ends.  It returns true exactly when its
\* last probe returned "true"; without polling it made one probe; with
\* polling it returns false only once the deadline has passed, also when
\* probes threw.
C33_ReadyTerminates ==
  /\ <>(readiness.pc = "done")
  /\ [](readiness.pc = "done" =>
          /\ readiness.result = (readiness.last = "true")
          /\ ~readiness.poll => readiness.probes = 1
          /\ (readiness.poll /\ ~readiness.result) => readiness.now >= readiness.deadline)

\* C33 (witness): a polling call returned true after probes that threw and
\* more than one sleep.
C33_ReadyAfterThrows ==
  /\ readiness.pc = "done"
  /\ readiness.poll
  /\ readiness.result
  /\ readiness.thrown
  /\ readiness.probes > 2

\* C35: after every sync of the Claude CLI credentials: a stored oauth
\* profile was not replaced by a token of the CLI; a stored token profile was
\* replaced by the oauth credential the CLI offered; and when the CLI offered
\* what was stored, the store is as it was and the sync returned false.
C35_NoDowngradePreferOAuth ==
  cliSync.calls > 0 =>
    LET offered == [type |-> cliSync.creds.type, provider |-> "anthropic",
                    secret |-> cliSync.creds.secret, refresh |-> cliSync.creds.refresh,
                    expires |-> cliSync.creds.expires, email |-> ""]
    IN /\ (cliSync.before.type = "oauth" /\ cliSync.creds.type = "token") =>
            (cliSync.store = cliSync.before /\ ~cliSync.returned)
       /\ (cliSync.before.type = "token" /\ cliSync.creds.type = "oauth") =>
            (cliSync.store = offered /\ cliSync.returned)
       /\ cliSync.before = offered => (cliSync.store = cliSync.before /\ ~cliSync.returned)
       /\ cliSync.creds.type = "none" => (cliSync.store = cliSync.before /\ ~cliSync.returned)

\* C35 (witness): a second sync replaced a stored token by the CLI's oauth
\* credential although the token was fresh and not expired.
C35_TokenUpgraded ==
  /\ cliSync.calls = 2
  /\ cliSync.before.type = "token"
  /\ cliSync.before.provider = "anthropic"
  /\ cliSync.before.expires > cliSync.now
  /\ cliSync.creds.type = "oauth"
  /\ cliSync.creds.expires < cliSync.before.expires
  /\ cliSync.store.type = "oauth"
  /\ cliSync.returned

\* C36: once disconnect() was the caller's latest call and its coroutine has
\* cancelled the Job of the loop whose connection is established, no frame
\* that loop reads is dispatched: no turn of its read loop calls onInvoke or
\* hands a named event to onEvent.
C36_NoDispatchAfterDisconnect ==
  [][\A j \in Loops :
       (/\ callHistory \in {"d", "dd"}
        /\ cancelled[j]
        /\ loopPc[j] = "read"
        /\ exchange'[j] # exchange[j])
         => /\ ~exchange'[j].invoked
            /\ ~(exchange'[j].line.type = "event" /\ exchange'[j].line.event # "")]_vars

\* C40: on a session without a current connection, a call of request() ends
\* "not connected" and a call of sendEvent() returns, and neither changes the
\* pending table, the waiters, desired, job, canvasHostUrl, the loops, the
\* sockets or what was written on them.
C40_NoConnectionNoEffect ==
  [][(/\ currentConnection = 0
      /\ \/ eventsLeft' # eventsLeft
         \/ \E r \in ReqIds : reqPc[r] = "new" /\ reqPc'[r] # "new")
       => /\ \A r \in ReqIds : reqPc'[r] # reqPc[r] => reqPc'[r] = "not connected"
          /\ UNCHANGED <<pending, deferred, result, reqConn, sessionVars, loopVars, netVars,
                         firstSent, hellos, lastStatus>>]_vars

\* C40 (witness): request() and sendEvent() were both called on a session
\* that never had a connection, and nothing is registered or written.
C40_CalledOffline ==
  /\ nConn = 0
  /\ currentConnection = 0
  /\ eventsLeft = 0
  /\ reqPc[1] = "not connected"
  /\ pending = {}
  /\ \A c \in Conns : firstSent[c] = ""

\* C38: the epilogue of a bridge task that connectToBridge has replaced
\* leaves bridgeStatusText and connectedBridgeID alone while the task that
\* replaced it is the app's bridge task.
C38_SupersededTaskKeepsOut ==
  [][\A t \in Tasks :
       (/\ taskPc[t] = "epilogue"
        /\ taskPc'[t] = "done"
        /\ bridgeTask \notin {0, t}
        /\ ~taskCancelled[bridgeTask])
         => /\ bridgeStatusText' = bridgeStatusText
            /\ connectedBridgeID' = connectedBridgeID]_vars

\* C37: a request() made while an onInvoke handler runs, by the handler or by
\* another coroutine, is completed once the gateway has sent its res, and
\* every ping the gateway has sent is answered in the end.
C37_HandlerCannotBlockLoop ==
  /\ \A who \in {"handler", "caller"} :
       (who \in invoking.answered) ~> (who \in invoking.completed)
  /\ \A n \in 1..MaxPings : (invoking.pings >= n) ~> (invoking.pongs >= n)

\* C39: the promise of sendViaIpc is resolved at most once and, once the call
\* is made, exactly once in the end; its value is the one of the first
\* settling event (null for an absent relay or an error, the first parsable
\* line for data, "IPC timeout" for the timer, "Connection closed" for close),
\* and no later event changes it.
C39_SettlesOnceWithFirst ==
  /\ [](ipcSend.pc # "idle" =>
          /\ ipcSend.settled <= 1
          /\ (ipcSend.settled = 1) = (ipcSend.first # "none")
          /\ ipcSend.settled = 1 =>
               ipcSend.outcome =
                 CASE ipcSend.first \in {"absent", "error"} -> "null"
                   [] ipcSend.first = "data" -> ipcSend.firstLine
                   [] ipcSend.first = "timeout" -> "IPC timeout"
                   [] ipcSend.first = "close" -> "Connection closed")
  /\ [][ipcSend.pc # "idle" /\ ipcSend.settled = 1 =>
          ipcSend'.settled = 1 /\ ipcSend'.outcome = ipcSend.outcome]_vars
  /\ (ipcSend.pc # "idle") ~> (ipcSend.settled = 1)

\* C39 witness: the timer fired first, the socket's close and a parsable line
\* came afterwards, and the promise still holds the timeout.
C39_LateEventsIgnored ==
  /\ ipcSend.pc = "open"
  /\ ipcSend.first = "timeout"
  /\ ipcSend.late >= 2
  /\ firstParsable(ipcSend.buffer) # "none"
  /\ ipcSend.settled = 1
  /\ ipcSend.outcome = "IPC timeout"

====
